---- MODULE Spec2Model ----
(***************************************************************************)
(* A state-machine model of spark-coach: the budget ledger                 *)
(* (coach.py _budget_allow), the minute scheduler (service.py main_loop),  *)
(* the morning approval session (coach.py run_morning_session), the        *)
(* pending-options watcher (coach.py _process_pending_number_posts), the   *)
(* opportunity scan, the theme and feature weights, the metrics sampler,   *)
(* the endpoint POST /v1/slack/notify and two units sharing state.json.    *)
(*                                                                         *)
(* Money is counted in whole cents: 0.50 USD is 50, 0.04 USD is 4.  The    *)
(* comparisons the ledger makes on these multiples of a cent come out the  *)
(* same in binary floating point as in exact arithmetic for the amounts    *)
(* used here (the sums stay at least a cent away from the cap or hit a     *)
(* value that is compared with <=).                                        *)
(***************************************************************************)
EXTENDS Integers, Sequences, FiniteSets, TLC

VARIABLES
    \* ---- budget ledger (data/state.json and the UTC calendar date)
    today,        \* dt.datetime.now(utc).date(), as a day number
    state,        \* the persisted budget state record
    cost,         \* argument of the last _budget_allow call
    ret,          \* return value of the last _budget_allow call
    callBit,      \* flips at every _budget_allow call
    lastAccepted, \* cost of the last accepted call of the day (0: none)
    rejMin,       \* least cost rejected so far today
    run,          \* consecutive allow(COST_PER_DRAFT) calls since the day began
    \* ---- scheduler (service.py main_loop and its threads)
    now,          \* the wall clock read at the top of the loop, in seconds
                  \* since Monday 00:00:00 UTC
    last_run,     \* main_loop.last_run: task name -> minute bucket last fired
    units,        \* the threads started so far: task, bucket, status
    ticks,        \* loop iterations done
    tickLog,      \* minute buckets of the last two loop iterations
    \* ---- one workflow instance and the channel it talks to
    flow,         \* which workflow runs: "morning" or "scan"
    pc,           \* where the workflow instance stands
    actions,      \* run_morning_session.actions, by type
    idx,          \* run_morning_session.idx
    msgs,         \* the cards in the channel: reactions, operator's signals
    thread,       \* texts the operator replied in the draft card's thread
    resp,         \* result of the last _wait_for_user_response
    draft,        \* run_morning_session.draft
    selected,     \* run_opportunity_scan.selected
    nopps,        \* number of shortlisted opportunities of the scan
    si,           \* position of the scan's loop in selected
    allowedJust,  \* the workflow's previous step was an allow that returned true
    lastGen,      \* the last call to the generation backend
    lastWait,     \* the last wait resolved: card, result, operator's signals
    lastPub,      \* the last publish call (post_to_x, reply_to_tweet)
    tweetPubs,    \* publish calls made with the content of the options message
    tracked,      \* number of track_user_choice calls
    \* scoring and shortlist of the opportunity scan
    cand,         \* the inputs of one _score_opportunity call
    score,        \* its result; -1 before the call
    opps,         \* _fetch_opportunities.opps: the scored candidates
    shortlist,    \* the list _fetch_opportunities returns
    fetched,      \* _fetch_opportunities has returned
    \* theme weights
    best,         \* the theme _update_theme_weights_from_metrics rewarded last
    \* learning.json
    learning,     \* features: key -> picks, successes, weight (in millionths)
    lops,         \* number of writes to learning.json
    snapIn,       \* the 24h snapshot the success update was last called with
    \* metrics sampler
    clock,        \* minutes since the post was logged
    offset,       \* minutes between the post and the scheduler's half hours
    lastSched,    \* clock of the last scheduled sampler run; -1 before
    snaps,        \* metrics.jsonl: number of snapshots per age label
    item,         \* kind of the logged post the sampler follows
    snaps24,      \* metrics.jsonl: the 24h snapshots, in file order
    \* POST /v1/slack/notify
    webhook_url,  \* SLACK_WEBHOOK_URL is set
    hook,         \* what the webhook did with the last outbound request
    answer,       \* the last answer of the endpoint: status code and body
    outbound,     \* outbound requests issued so far
    answers,      \* answers given so far, by status code
    \* two units working on state.json at once
    upc,          \* unit -> where it stands: "idle", "loaded", "saved"
    uop,          \* unit -> the operation it performs
    uloc,         \* unit -> the state it has loaded
    granted,      \* sum of the costs for which _budget_allow returned True
    lastThemes,   \* the theme weights saved by the last completed theme update
    \* theme updates and selections
    window,       \* posts of the last 24 hours seen by the theme update, when
                  \* it is the last call on the themes; a bit flips at every update
    pick,         \* the _pick_theme call, when it is the last call on the
                  \* themes: its result and branch; a bit flips at every call
    \* settings of the process and the collaborators one session contacts
    cfg,          \* which settings are present in the environment
    cpc,          \* where the session stands
    contacted,    \* collaborators the session has made a network call to
    \* one generation call
    genIn,        \* its task, the model override and what each variant does
    genOut,       \* the variants called, in order, and how the call ended
    \* the thread under the shortlist header of a scan
    opSel,        \* indexes named by the operator's reply; <<>> without one
    \* the action of a morning session
    cards         \* cards and drafts posted so far for the current action

ledgerVars == <<today, state, cost, ret, callBit, lastAccepted, rejMin, run>>
schedVars == <<now, last_run, units, ticks, tickLog>>
flowVars == <<flow, pc, actions, idx, msgs, thread, resp, draft, selected,
              nopps, si, allowedJust, lastGen, lastWait, lastPub,
              tweetPubs, tracked>>
scoreVars == <<cand, score>>
shortVars == <<opps, shortlist, fetched>>
learnVars == <<learning, lops, snapIn>>
samplerVars == <<clock, offset, lastSched, snaps, item, snaps24>>
notifyVars == <<webhook_url, hook, answer, outbound, answers>>
raceVars == <<upc, uop, uloc, granted, lastThemes>>
otherVars == <<notifyVars, raceVars>>
configVars == <<cfg, cpc, contacted>>
genVars == <<genIn, genOut>>
threadVars == <<opSel, cards>>
moreVars == <<window, pick, configVars, genVars, threadVars>>
\* all of laterVars but threadVars
quietVars == <<scoreVars, shortVars, best, learnVars, samplerVars, otherVars,
               window, pick, configVars, genVars>>
laterVars == <<scoreVars, shortVars, best, learnVars, samplerVars, otherVars, moreVars>>
vars == <<today, state, cost, ret, callBit, lastAccepted, rejMin, run,
          now, last_run, units, ticks, tickLog,
          flow, pc, actions, idx, msgs, thread, resp, draft, selected,
          nopps, si, allowedJust, lastGen, lastWait, lastPub,
          tweetPubs, tracked,
          cand, score, opps, shortlist, fetched, best, learning, lops, snapIn,
          clock, offset, lastSched, snaps, item, snaps24,
          webhook_url, hook, answer, outbound, answers,
          upc, uop, uloc, granted, lastThemes,
          window, pick, cfg, cpc, contacted, genIn, genOut, opSel, cards>>

----------------------------------------------------------------------------
(* Bounds of the model *)
MaxDay == 1
MaxCost == 5
MaxDrafts == 14
MaxRun == 14
MaxTicks == 4
MaxAdjust == 1
MaxDrift == 1
LongPause == 1800
MaxReplies == 1
MaxThread == 2
MaxPubs == 2
MaxOpps == 2
MaxSelected == 3

(* Program constants, in cents *)
DAILY_TOKEN_BUDGET_USD == 50
COST_PER_DRAFT == 4
\* time.sleep(60) at the end of each loop iteration
SleepSec == 60
\* TZ = dt.timezone(dt.timedelta(hours=1)), in seconds
TZ_OFFSET == 3600
\* _determine_morning_actions returns actions[:4]
ActionCap == 4

Costs == 0..MaxCost

----------------------------------------------------------------------------
(* The persisted state: json of state.json.  "dated" says whether the keys *)
(* date/spend/drafts are present, "themed" whether the key themes is.      *)
ThemeNames == {"metrics", "build_in_public", "positioning", "technical", "hot_take"}

DefaultThemes == [k \in ThemeNames |-> 1]

\* _load_budget_state on a missing or unreadable file: {}
EmptyState ==
    [dated |-> FALSE, date |-> 0, spend |-> 0, drafts |-> 0,
     themed |-> FALSE, themes |-> DefaultThemes]

\* s = {"date": today, "spend": 0.0, "drafts": 0}: a new dict, no other key
ResetState(day) ==
    [dated |-> TRUE, date |-> day, spend |-> 0, drafts |-> 0,
     themed |-> FALSE, themes |-> DefaultThemes]

\* A mutant of budget_allow: the check compares the cost alone with the cap.
budget_allow_cost_only(s, day, c) ==
    LET s1 == IF s.dated /\ s.date = day THEN s ELSE ResetState(day)
    IN  IF c > DAILY_TOKEN_BUDGET_USD
        THEN [ret |-> FALSE, state |-> s1]
        ELSE [ret |-> TRUE,
              state |-> [s1 EXCEPT !.spend = @ + c, !.drafts = @ + 1]]

\* A mutant of budget_allow: a rejected call still counts a draft.
budget_allow_counts_rejects(s, day, c) ==
    LET s1 == IF s.dated /\ s.date = day THEN s ELSE ResetState(day)
    IN  IF s1.spend + c > DAILY_TOKEN_BUDGET_USD
        THEN [ret |-> FALSE, state |-> [s1 EXCEPT !.drafts = @ + 1]]
        ELSE [ret |-> TRUE,
              state |-> [s1 EXCEPT !.spend = @ + c, !.drafts = @ + 1]]

\* A mutant of budget_allow: a rejected call saves a reset state.
budget_allow_reset_on_reject(s, day, c) ==
    LET s1 == IF s.dated /\ s.date = day THEN s ELSE ResetState(day)
    IN  IF s1.spend + c > DAILY_TOKEN_BUDGET_USD
        THEN [ret |-> FALSE, state |-> ResetState(day)]
        ELSE [ret |-> TRUE,
              state |-> [s1 EXCEPT !.spend = @ + c, !.drafts = @ + 1]]

\* A mutant of budget_allow: the stored date is updated but spend and draft
\* count are carried over to the new day.
budget_allow_no_reset(s, day, c) ==
    LET s1 == [s EXCEPT !.dated = TRUE, !.date = day]
    IN  IF s1.spend + c > DAILY_TOKEN_BUDGET_USD
        THEN [ret |-> FALSE, state |-> s1]
        ELSE [ret |-> TRUE,
              state |-> [s1 EXCEPT !.spend = @ + c, !.drafts = @ + 1]]

\* A mutant of budget_allow: on a new day the spend is reset but the draft
\* count is carried over.
budget_allow_keeps_drafts(s, day, c) ==
    LET s1 == IF s.dated /\ s.date = day THEN s
              ELSE [ResetState(day) EXCEPT !.drafts = s.drafts]
    IN  IF s1.spend + c > DAILY_TOKEN_BUDGET_USD
        THEN [ret |-> FALSE, state |-> s1]
        ELSE [ret |-> TRUE,
              state |-> [s1 EXCEPT !.spend = @ + c, !.drafts = @ + 1]]

\* _budget_allow(cost): the value returned and the state saved.
budget_allow(s, day, c) ==
    LET s1 == IF s.dated /\ s.date = day THEN s ELSE ResetState(day)
    IN  IF s1.spend + c > DAILY_TOKEN_BUDGET_USD
        THEN [ret |-> FALSE, state |-> s1]
        ELSE [ret |-> TRUE,
              state |-> [s1 EXCEPT !.spend = @ + c, !.drafts = @ + 1]]

----------------------------------------------------------------------------
(* Scheduler: service.py *)

\* tasks, in the order of the dict main_loop iterates over
Tasks == <<"suggest", "afternoon", "summary", "weekly", "scan", "metrics">>
TaskNames == {Tasks[i] : i \in DOMAIN Tasks}

At(dow, h, m, s) == ((dow * 24 + h) * 60 + m) * 60 + s

hour(t) == (t \div 3600) % 24
minute(t) == (t \div 60) % 60
weekday(t) == (t \div 86400) % 7

\* should_run_task(task, now)
should_run_task(task, t) ==
    CASE task = "suggest" -> hour(t) = 7 /\ minute(t) = 30
      [] task = "afternoon" -> hour(t) = 13 /\ minute(t) = 0
      [] task = "summary" -> hour(t) = 18 /\ minute(t) = 0
      [] task = "weekly" -> weekday(t) = 6 /\ hour(t) = 19 /\ minute(t) = 0
      [] task = "scan" -> hour(t) \in {9, 12, 15} /\ minute(t) = 0
      [] task = "metrics" -> minute(t) % 30 = 0
      [] OTHER -> FALSE

\* current_minute = now.replace(second=0, microsecond=0), as a minute number
current_minute(t) == t \div 60

NeverRun == [set |-> FALSE, bucket |-> 0]

\* A mutant of fires: the once-per-minute check is dropped.
fires_every_tick(lr, task, t) == should_run_task(task, t)

\* The two conditions under which main_loop starts a thread for a task.
fires(lr, task, t) ==
    /\ should_run_task(task, t)
    /\ ~(lr[task].set /\ lr[task].bucket = current_minute(t))

\* A mutant of run_task_safe: no try/except around the task body.
run_task_safe_uncaught(raised) == IF raised THEN "uncaught" ELSE "completed"

\* run_task_safe(task_name, task_func): how the thread ends when the task
\* body returns (raised = FALSE) or raises an Exception (raised = TRUE).
run_task_safe(raised) == IF raised THEN "caught" ELSE "completed"

\* The tasks started by one loop iteration at clock reading t, in dict order.
RECURSIVE Started(_, _, _)
Started(lr, t, i) ==
    IF i > Len(Tasks) THEN <<>>
    ELSE (IF fires(lr, Tasks[i], t)
          THEN <<[task |-> Tasks[i], bucket |-> current_minute(t),
                  status |-> "running"]>>
          ELSE <<>>) \o Started(lr, t, i + 1)

\* The time between two readings of the clock: the sleep, the time the loop
\* body took, a wall-clock adjustment, or a long pause of the process.
Deltas == ((SleepSec - MaxAdjust)..(SleepSec + MaxDrift)) \cup {LongPause}

\* the clock readings the service may start at: a minute before a task is
\* due, at the start of that minute or in its last second
StartTimes ==
    {At(0, 6, 29, 0), At(0, 7, 29, 0), At(0, 7, 29, 59), At(0, 8, 59, 0),
     At(0, 12, 59, 0), At(0, 17, 59, 0), At(6, 18, 59, 0)}

----------------------------------------------------------------------------
(* Workflows: coach.py run_morning_session, run_opportunity_scan and   *)
(* the watcher _process_pending_number_posts                           *)

ROBOT_REACTION == "robot_face"

CardKinds == {"confirm", "options", "reply", "draft"}

\* the reactions the session itself adds to a card it has posted, in order
Seeds(k) ==
    CASE k = "confirm" -> <<"+1", "thumbsdown">>
      [] k = "options" -> <<"one", "two", "three">>
      [] k = "reply" -> <<"+1", "thumbsdown", "next_track_button">>
      [] k = "draft" -> <<"white_check_mark", "pencil2",
                          "arrows_counterclockwise", "thumbsdown">>

\* the expected dict passed to _wait_for_user_response, in key order
Expected(k) ==
    CASE k = "confirm" ->
           <<[key |-> "yes", names |-> {"+1", "thumbsup"}],
             [key |-> "no", names |-> {"thumbsdown"}]>>
      [] k = "options" ->
           <<[key |-> "1", names |-> {"one", "keycap_1"}],
             [key |-> "2", names |-> {"two", "keycap_2"}],
             [key |-> "3", names |-> {"three", "keycap_3"}]>>
      [] k = "reply" ->
           <<[key |-> "yes", names |-> {"+1", "thumbsup"}],
             [key |-> "no", names |-> {"thumbsdown"}],
             [key |-> "next", names |-> {"next_track_button"}]>>
      [] k = "draft" ->
           <<[key |-> "post", names |-> {"white_check_mark", "heavy_check_mark"}],
             [key |-> "edit", names |-> {"pencil2"}],
             [key |-> "regen", names |-> {"arrows_counterclockwise"}],
             [key |-> "skip", names |-> {"thumbsdown"}]>>

\* the reactions the operator may put on a card
OperatorNames(k) == {Seeds(k)[i] : i \in DOMAIN Seeds(k)}

\* _reaction_selected(msg, names): some name has a count above 0
reaction_selected(rx, names) == rx \cap names # {}

\* One poll of _wait_for_user_response: the first key, in dict order, one of
\* whose names is on the message; "none" when there is none.
RECURSIVE first_selected(_, _, _)
first_selected(rx, exp, i) ==
    IF i > Len(exp) THEN "none"
    ELSE IF reaction_selected(rx, exp[i].names) THEN exp[i].key
    ELSE first_selected(rx, exp, i + 1)

poll(rx, k) == first_selected(rx, Expected(k), 1)

NoMsg == [posted |-> FALSE, rx |-> {}, op |-> {}]

\* the session's slack_add_reaction calls on a card all succeed, or the
\* first one fails
SeedCounts(k) == {0, Len(Seeds(k))}

\* A card just posted, after n of the session's slack_add_reaction calls
\* succeeded (the first failure ends the try block).
Posted(k, n) ==
    [posted |-> TRUE, rx |-> {Seeds(k)[i] : i \in 1..n}, op |-> {}]

\* A mutant of Awaited: the wait of a reply card polls the draft card.
Awaited_draft_for_reply(p) ==
    CASE p = "wait_confirm" -> "confirm"
      [] p = "wait_options" -> "options"
      [] p = "wait_reply" -> "draft"
      [] p = "wait_draft" -> "draft"

\* the card a wait state of the session polls
Awaited(p) ==
    CASE p = "wait_confirm" -> "confirm"
      [] p = "wait_options" -> "options"
      [] p = "wait_reply" -> "reply"
      [] p = "wait_draft" -> "draft"

WaitStates == {"wait_confirm", "wait_options", "wait_reply", "wait_draft"}

\* where run_morning_session goes after a wait on card k returned r;
\* "next" stands for the continue / end of the loop body
Branch(k, r) ==
    CASE k = "confirm" -> IF r = "yes" THEN "gen_options" ELSE "next"
      [] k = "options" -> IF r \in {"1", "2", "3"} THEN "publish_tweet" ELSE "next"
      [] k = "reply" -> IF r = "yes" THEN "gen_draft" ELSE "next"
      [] k = "draft" ->
           CASE r = "edit" -> "draft_edit"
             [] r = "regen" -> "draft_regen"
             [] r = "post" -> "draft_post"
             [] OTHER -> "next"

\* tweets[choice - 1]: the options are told apart by their position
OptionText(choice) ==
    CASE choice = "1" -> "tweet1" [] choice = "2" -> "tweet2" [] choice = "3" -> "tweet3"

\* the watcher's choice among the reactions of an options message
watcher_selected(rx) ==
    IF "one" \in rx THEN "1"
    ELSE IF "two" \in rx THEN "2"
    ELSE IF "three" \in rx THEN "3"
    ELSE "none"

\* the edit the session takes from the thread replies of the draft card:
\* it walks edits[::-1] and stops at the first text starting with "edit:"
RECURSIVE edit_from(_, _)
edit_from(th, i) ==
    IF i = 0 THEN "none"
    ELSE IF th[i] # "chat" THEN th[i]
    ELSE edit_from(th, i - 1)

NoGen == [any |-> FALSE, site |-> "none", gated |-> FALSE]
NoWait == [any |-> FALSE, card |-> "none", resp |-> "none", op |-> {}]
NoPub == [any |-> FALSE, by |-> "none", kind |-> "none", text |-> "none"]

----------------------------------------------------------------------------
(* Initial values of each component *)

NoReject == [any |-> FALSE, min |-> 0]
FreshRun == [pure |-> TRUE, n |-> 0]

LedgerStart ==
    /\ today = 0
    /\ state \in {EmptyState, [EmptyState EXCEPT !.themed = TRUE]}
    /\ cost = 0
    /\ ret = FALSE
    /\ callBit = FALSE
    /\ lastAccepted = 0
    /\ rejMin = NoReject
    /\ run = FreshRun

LedgerIdle ==
    /\ today = 0
    /\ state = EmptyState
    /\ cost = 0
    /\ ret = FALSE
    /\ callBit = FALSE
    /\ lastAccepted = 0
    /\ rejMin = NoReject
    /\ run = FreshRun

\* main_loop starts with last_run = {} and no thread
SchedStart ==
    /\ now \in StartTimes
    /\ last_run = [k \in TaskNames |-> NeverRun]
    /\ units = <<>>
    /\ ticks = 0
    /\ tickLog = <<>>

SchedIdle ==
    /\ now = 0
    /\ last_run = [k \in TaskNames |-> NeverRun]
    /\ units = <<>>
    /\ ticks = 0
    /\ tickLog = <<>>

FlowIdle ==
    /\ flow = "none"
    /\ pc = "idle"
    /\ actions = <<>>
    /\ idx = 0
    /\ msgs = [k \in CardKinds |-> NoMsg]
    /\ thread = <<>>
    /\ resp = "none"
    /\ draft = "none"
    /\ selected = <<>>
    /\ nopps = 0
    /\ si = 0
    /\ allowedJust = FALSE
    /\ lastGen = NoGen
    /\ lastWait = NoWait
    /\ lastPub = NoPub
    /\ tweetPubs = 0
    /\ tracked = 0

\* no _score_opportunity call yet
NoCand ==
    [tier |-> 3, like_count |-> 0, retweet_count |-> 0, repost_count |-> 0,
     reply_count |-> 0, minutes_ago |-> 0]

ScoreIdle == cand = NoCand /\ score = -1

ShortIdle == opps = <<>> /\ shortlist = <<>> /\ fetched = FALSE

\* the keys track_user_choice and the success update walk
FeatureKeys == {"has_numbers", "asks_question", "emoji_count", "len", "is_personal_story"}

\* s["features"].setdefault(key, {"picks": 0, "successes": 0, "weight": 0.5})
FreshFeature == [picks |-> 0, successes |-> 0, weight |-> 500000]

\* _load_learning on a missing file: {"features": {}}
FreshLearning == [k \in FeatureKeys |-> FreshFeature]

NoSnap == [any |-> FALSE, likes |-> 0, replies |-> 0, found |-> FALSE]

LearnIdle == learning = FreshLearning /\ lops = 0 /\ snapIn = NoSnap

\* intervals of _background_metrics_fetch
Labels == {"30m", "2h", "6h", "24h"}

SamplerIdle ==
    /\ clock = 0
    /\ offset = 0
    /\ lastSched = -1
    /\ snaps = [l \in Labels |-> 0]
    /\ item = "tweet"
    /\ snaps24 = <<>>

\* no request to the endpoint yet
NoAnswer == [code |-> 0, body |-> "none"]

AnswerCodes == {200, 400, 502}

NotifyIdle ==
    /\ webhook_url = FALSE
    /\ hook = "none"
    /\ answer = NoAnswer
    /\ outbound = 0
    /\ answers = [c \in AnswerCodes |-> 0]

Units == {1, 2}

NoOp == [kind |-> "none", cost |-> 0, posts |-> <<0, 0, 0>>]

RaceIdle ==
    /\ upc = [u \in Units |-> "idle"]
    /\ uop = [u \in Units |-> NoOp]
    /\ uloc = [u \in Units |-> EmptyState]
    /\ granted = 0
    /\ lastThemes = DefaultThemes

OtherIdle == NotifyIdle /\ RaceIdle

\* no theme update and no theme selection yet
NoWindow == [bit |-> FALSE, posts |-> <<0, 0, 0>>]
NoPick == [bit |-> FALSE, theme |-> "none", explored |-> FALSE]

ThemeAuxIdle == window = NoWindow /\ pick = NoPick

\* the settings a workflow reads with env_required
Settings == {"SLACK_CHANNEL_ID", "SLACK_BOT_TOKEN", "ANTHROPIC_API_KEY", "TWITTER_KEYS"}

AllConfigured == [present |-> Settings, creators |-> TRUE, profile |-> TRUE]

ConfigIdle == cfg = AllConfigured /\ cpc = "idle" /\ contacted = {}

NoGenIn == [task |-> "none", override |-> FALSE, fails |-> <<>>]
NoGenOut == [done |-> FALSE, called |-> <<>>, result |-> "none", by |-> 0, err |-> 0]

GenIdle == genIn = NoGenIn /\ genOut = NoGenOut

ThreadIdle == opSel = <<>> /\ cards = 0

MoreIdle == ThemeAuxIdle /\ ConfigIdle /\ GenIdle /\ ThreadIdle

LaterIdle ==
    /\ ScoreIdle /\ ShortIdle /\ best = "none" /\ LearnIdle /\ SamplerIdle
    /\ OtherIdle /\ MoreIdle

----------------------------------------------------------------------------
(* Ledger: the calls of _budget_allow over the days *)

LedgerInit == LedgerStart /\ SchedIdle /\ FlowIdle /\ LaterIdle

Min(a, b) == IF a <= b THEN a ELSE b

\* One call _budget_allow(c): what it saves and returns.
LedgerCall(c) ==
    LET r == budget_allow(state, today, c)
    IN  /\ state' = r.state
        /\ ret' = r.ret
        /\ cost' = c
        /\ callBit' = ~callBit
        /\ lastAccepted' = IF r.ret THEN c ELSE lastAccepted
        /\ rejMin' = IF r.ret THEN rejMin
                     ELSE [any |-> TRUE,
                           min |-> IF rejMin.any THEN Min(rejMin.min, c) ELSE c]
        /\ run' = IF run.pure /\ c = COST_PER_DRAFT
                  THEN [pure |-> TRUE, n |-> Min(run.n + 1, MaxRun)]
                  ELSE [pure |-> FALSE, n |-> 0]
        /\ UNCHANGED today

Allow(c) ==
    /\ budget_allow(state, today, c).state.drafts <= MaxDrafts
    /\ LedgerCall(c)
    /\ UNCHANGED <<schedVars, flowVars, laterVars>>

\* The UTC date rolls over.
NextDay ==
    /\ today < MaxDay
    /\ today' = today + 1
    /\ lastAccepted' = 0
    /\ rejMin' = NoReject
    /\ run' = FreshRun
    /\ UNCHANGED <<state, cost, ret, callBit>>
    /\ UNCHANGED <<schedVars, flowVars, laterVars>>

LedgerNext ==
    \/ \E c \in Costs : Allow(c)
    \/ NextDay

SpecLedger == LedgerInit /\ [][LedgerNext]_vars

----------------------------------------------------------------------------
(* Scheduler: the loop of main_loop and the threads it starts *)

SchedInit == SchedStart /\ LedgerIdle /\ FlowIdle /\ LaterIdle

\* A mutant of loop_waits_for: the loop joins the threads it started.
loop_waits_for_running(u) == u.status = "running"

\* whether the loop waits for a thread it started: threading.Thread(...,
\* daemon=True).start() returns at once and main_loop never joins
loop_waits_for(u) == FALSE

\* One iteration of the while loop: read the clock, start a thread for each
\* task that fires, record its bucket, sleep.
Tick ==
    /\ ticks < MaxTicks
    /\ \A i \in DOMAIN units : ~loop_waits_for(units[i])
    /\ \E d \in Deltas :
        /\ now' = now + d
        /\ last_run' = [k \in TaskNames |->
                          IF fires(last_run, k, now)
                          THEN [set |-> TRUE, bucket |-> current_minute(now)]
                          ELSE last_run[k]]
        /\ units' = units \o Started(last_run, now, 1)
        /\ ticks' = ticks + 1
        /\ tickLog' = IF tickLog = <<>> THEN <<current_minute(now)>>
                      ELSE <<tickLog[Len(tickLog)], current_minute(now)>>
    /\ UNCHANGED <<ledgerVars, flowVars, laterVars>>

\* The task body of thread i returns or raises; run_task_safe ends the thread.
UnitEnds(i) ==
    /\ units[i].status = "running"
    /\ \E raised \in BOOLEAN :
        units' = [units EXCEPT ![i].status = run_task_safe(raised)]
    /\ UNCHANGED <<now, last_run, ticks, tickLog>>
    /\ UNCHANGED <<ledgerVars, flowVars, laterVars>>

SchedNext ==
    \/ Tick
    \/ \E i \in DOMAIN units : UnitEnds(i)

SpecSched == SchedInit /\ [][SchedNext]_vars

----------------------------------------------------------------------------
(* Workflows: one morning session or one opportunity scan, the operator *)
(* and the watcher                                                      *)

\* a state of state.json in which one more draft fits under the cap
NearCap == [ResetState(0) EXCEPT !.spend = 11 * COST_PER_DRAFT, !.drafts = 11]

FlowInit ==
    /\ flow \in {"morning", "scan"}
    /\ pc = "start"
    /\ actions = <<>>
    /\ idx = 0
    /\ msgs = [k \in CardKinds |-> NoMsg]
    /\ thread = <<>>
    /\ resp = "none"
    /\ draft = "none"
    /\ selected = <<>>
    /\ nopps = 0
    /\ si = 0
    /\ allowedJust = FALSE
    /\ lastGen = NoGen
    /\ lastWait = NoWait
    /\ lastPub = NoPub
    /\ tweetPubs = 0
    /\ tracked = 0
    /\ today = 0
    /\ state \in IF flow = "scan" THEN {EmptyState, NearCap} ELSE {EmptyState}
    /\ cost = 0
    /\ ret = FALSE
    /\ callBit = FALSE
    /\ lastAccepted = 0
    /\ rejMin = NoReject
    /\ run = FreshRun
    /\ SchedIdle
    /\ LaterIdle

ledgerHist == <<cost, ret, callBit, lastAccepted, rejMin, run>>

\* _pick_theme, as generate_coaching_card calls it: the themes loaded (or the
\* default ones) are written back into state.json
pick_theme_save(s) == [s EXCEPT !.themed = TRUE]

\* opps[:3] in _determine_morning_actions
OPPS_TAKEN == 3

\* the list before the cut: the urgent reply, the tweet action inserted in
\* front of it, the replies to the opportunities found
morning_actions_found(urgent, k) ==
    <<"tweet">> \o (IF urgent THEN <<"reply">> ELSE <<>>) \o [i \in 1..k |-> "reply"]

\* A mutant of determine_morning_actions: the list is not cut.
determine_morning_actions_uncut(urgent, k) == morning_actions_found(urgent, k)

\* _determine_morning_actions with an urgent opportunity or none and k
\* opportunities fetched: actions[:4]
determine_morning_actions(urgent, k) ==
    SubSeq(morning_actions_found(urgent, k), 1,
           Min(ActionCap, Len(morning_actions_found(urgent, k))))

\* run_morning_session up to the loop: the coaching card (its exceptions are
\* swallowed, so _pick_theme may or may not have saved), the header, and
\* _determine_morning_actions: the tweet action first, then the reply
\* actions, cut to ActionCap; an exception there ends the session.
MorningBeginUpTo(maxr) ==
    /\ flow = "morning" /\ pc = "start"
    /\ \E themeSaved \in BOOLEAN :
          state' = IF themeSaved THEN pick_theme_save(state) ELSE state
    /\ \/ /\ pc' = "aborted"
          /\ UNCHANGED <<actions, idx>>
       \/ \E urgent \in BOOLEAN, k \in 0..OPPS_TAKEN :
             /\ Len(determine_morning_actions(urgent, k)) <= 1 + maxr
             /\ actions' = determine_morning_actions(urgent, k)
             /\ idx' = 1
             /\ pc' = "next"
    /\ UNCHANGED <<today, ledgerHist, schedVars, laterVars>>
    /\ UNCHANGED <<flow, msgs, thread, resp, draft, selected, nopps, si,
                   allowedJust, lastGen, lastWait, lastPub,
                   tweetPubs, tracked>>

\* a session with at most MaxReplies reply actions
MorningBegin == MorningBeginUpTo(MaxReplies)

\* The head of the loop body: the card of the next action is posted and the
\* session adds its reactions to it; after the last action the completion
\* message is posted.  The records of the last generation, wait and publish
\* call are those of the current loop body: they start empty here.
NextAction ==
    /\ flow = "morning" /\ pc = "next"
    /\ IF idx > Len(actions)
       THEN /\ pc' = "done"
            /\ cards' = 0
            /\ UNCHANGED msgs
       ELSE LET k == IF actions[idx] = "tweet" THEN "confirm" ELSE "reply"
            IN  \E n \in SeedCounts(k) :
                   /\ msgs' = [msgs EXCEPT ![k] = Posted(k, n)]
                   /\ cards' = 1
                   /\ pc' = IF k = "confirm" THEN "wait_confirm" ELSE "wait_reply"
    /\ resp' = "none"
    /\ draft' = "none"
    /\ lastGen' = NoGen
    /\ lastWait' = NoWait
    /\ lastPub' = NoPub
    /\ UNCHANGED <<ledgerVars, schedVars, quietVars, opSel>>
    /\ UNCHANGED <<flow, actions, idx, thread, selected, nopps, si,
                   allowedJust, tweetPubs, tracked>>

\* _wait_for_user_response returns r for the card the session waits on.
WaitEnds(r) ==
    LET k == Awaited(pc)
        w == [any |-> TRUE, card |-> k, resp |-> r, op |-> msgs[k].op]
    IN  /\ resp' = r
        /\ lastWait' = w
        /\ pc' = Branch(k, r)
        /\ idx' = IF Branch(k, r) = "next" THEN idx + 1 ELSE idx
        /\ msgs' = IF k = "options" THEN msgs ELSE [msgs EXCEPT ![k] = NoMsg]
        /\ UNCHANGED <<ledgerVars, schedVars, laterVars>>
        /\ thread' = IF Branch(k, r) = "draft_edit" THEN thread ELSE <<>>
        /\ UNCHANGED <<flow, actions, draft, selected, nopps, si,
                       allowedJust, lastGen, lastPub, tweetPubs, tracked>>

\* A poll finds one of the expected reactions on the card.
PollReturns ==
    /\ flow = "morning" /\ pc \in WaitStates
    /\ poll(msgs[Awaited(pc)].rx, Awaited(pc)) # "none"
    /\ WaitEnds(poll(msgs[Awaited(pc)].rx, Awaited(pc)))

\* The last poll before timeout_sec is over finds none: the wait returns None.
WaitTimesOut ==
    /\ flow = "morning" /\ pc \in WaitStates
    /\ poll(msgs[Awaited(pc)].rx, Awaited(pc)) = "none"
    /\ WaitEnds("none")

\* generate_suggestions and the options message.  Without a voice profile
\* no generation call is made and an error line is returned; an exception
\* of the call is not caught by the session.
GenOptions ==
    /\ flow = "morning" /\ pc = "gen_options"
    /\ \E out \in {"no_profile", "ok", "raise"} :
        /\ lastGen' = IF out = "no_profile" THEN lastGen
                      ELSE [any |-> TRUE, site |-> "options", gated |-> allowedJust]
        /\ IF out = "raise"
           THEN /\ pc' = "aborted"
                /\ UNCHANGED <<msgs, cards>>
           ELSE \E n \in SeedCounts("options") :
                   /\ msgs' = [msgs EXCEPT !["options"] = Posted("options", n)]
                   /\ cards' = cards + 1
                   /\ pc' = "wait_options"
    /\ allowedJust' = FALSE
    /\ UNCHANGED <<ledgerVars, schedVars, quietVars, opSel>>
    /\ UNCHANGED <<flow, actions, idx, thread, resp, draft, selected, nopps, si,
                   lastWait, lastPub, tweetPubs, tracked>>

\* track_user_choice (taken to succeed), then post_to_x (its
\* exceptions are not caught), then the confirmation message.
PublishTweet ==
    /\ flow = "morning" /\ pc = "publish_tweet"
    /\ tracked' = tracked + 1
    /\ \/ /\ pc' = "aborted"
          /\ UNCHANGED <<idx, lastPub, tweetPubs>>
       \/ /\ tweetPubs' = tweetPubs + 1
          /\ lastPub' = [any |-> TRUE, by |-> "session", kind |-> "tweet",
                         text |-> OptionText(resp)]
          /\ idx' = idx + 1
          /\ pc' = "next"
    /\ UNCHANGED <<ledgerVars, schedVars, laterVars>>
    /\ UNCHANGED <<flow, actions, msgs, thread, resp, draft, selected, nopps, si,
                   allowedJust, lastGen, lastWait>>

\* The try block of a reply action: get_tweet, _generate_reply_single; on an
\* exception a failure message is posted and the loop continues.  Otherwise
\* the draft card is posted.
GenDraft ==
    /\ flow = "morning" /\ pc = "gen_draft"
    /\ \E out \in {"fetch_raises", "gen_raises", "ok"} :
        /\ lastGen' = IF out = "fetch_raises" THEN lastGen
                      ELSE [any |-> TRUE, site |-> "draft", gated |-> allowedJust]
        /\ IF out = "ok"
           THEN /\ \E n \in SeedCounts("draft") :
                      msgs' = [msgs EXCEPT !["draft"] = Posted("draft", n)]
                /\ draft' = "draft1"
                /\ cards' = cards + 1
                /\ pc' = "wait_draft"
                /\ idx' = idx
           ELSE /\ pc' = "next"
                /\ idx' = idx + 1
                /\ UNCHANGED <<msgs, draft, cards>>
    /\ thread' = <<>>
    /\ allowedJust' = FALSE
    /\ UNCHANGED <<ledgerVars, schedVars, quietVars, opSel>>
    /\ UNCHANGED <<flow, actions, resp, selected, nopps, si,
                   lastWait, lastPub, tweetPubs, tracked>>

\* resp == "edit": the thread replies are read, the draft is replaced.
DraftEdit ==
    /\ flow = "morning" /\ pc = "draft_edit"
    /\ draft' = IF edit_from(thread, Len(thread)) = "none" THEN draft
                ELSE edit_from(thread, Len(thread))
    /\ pc' = "draft_post"
    /\ thread' = <<>>
    /\ UNCHANGED <<ledgerVars, schedVars, laterVars>>
    /\ UNCHANGED <<flow, actions, idx, msgs, resp, selected, nopps, si,
                   allowedJust, lastGen, lastWait, lastPub,
                   tweetPubs, tracked>>

\* resp == "regen": _generate_reply_single again (its exceptions are not
\* caught), the new draft is posted as a plain message.
DraftRegen ==
    /\ flow = "morning" /\ pc = "draft_regen"
    /\ lastGen' = [any |-> TRUE, site |-> "regen", gated |-> allowedJust]
    /\ \/ /\ pc' = "aborted"
          /\ UNCHANGED <<draft, cards>>
       \/ /\ draft' = "draft2"
          /\ cards' = cards + 1
          /\ pc' = "draft_post"
    /\ allowedJust' = FALSE
    /\ UNCHANGED <<ledgerVars, schedVars, quietVars, opSel>>
    /\ UNCHANGED <<flow, actions, idx, msgs, thread, resp, selected, nopps, si,
                   lastWait, lastPub, tweetPubs, tracked>>

\* resp == "post": reply_to_tweet (its exceptions are not caught).
DraftPost ==
    /\ flow = "morning" /\ pc = "draft_post"
    /\ \/ /\ pc' = "aborted"
          /\ UNCHANGED <<idx, lastPub>>
       \/ /\ lastPub' = [any |-> TRUE, by |-> "session", kind |-> "reply",
                         text |-> draft]
          /\ idx' = idx + 1
          /\ pc' = "next"
    /\ UNCHANGED <<ledgerVars, schedVars, laterVars>>
    /\ UNCHANGED <<flow, actions, msgs, thread, resp, draft, selected, nopps, si,
                   allowedJust, lastGen, lastWait, tweetPubs, tracked>>

\* The operator answers a card with one reaction: on the card the session
\* waits on, or (at any later time) on the options message.
OperatorReact(k, name) ==
    /\ flow = "morning"
    /\ msgs[k].posted
    /\ k = "options" \/ (pc \in WaitStates /\ Awaited(pc) = k)
    /\ name \in OperatorNames(k)
    /\ msgs[k].op = {}
    /\ msgs' = [msgs EXCEPT ![k].rx = @ \cup {name}, ![k].op = @ \cup {name}]
    /\ UNCHANGED <<ledgerVars, schedVars, laterVars>>
    /\ UNCHANGED <<flow, pc, actions, idx, thread, resp, draft, selected, nopps, si,
                   allowedJust, lastGen, lastWait, lastPub,
                   tweetPubs, tracked>>

\* The operator replies in the thread of the draft card: "edit1" and "edit2"
\* stand for two texts "edit: ...", "chat" for any other text.
OperatorReply(text) ==
    /\ flow = "morning" /\ pc = "wait_draft"
    /\ Len(thread) < MaxThread
    /\ thread' = Append(thread, text)
    /\ UNCHANGED <<ledgerVars, schedVars, laterVars>>
    /\ UNCHANGED <<flow, pc, actions, idx, msgs, resp, draft, selected, nopps, si,
                   allowedJust, lastGen, lastWait, lastPub,
                   tweetPubs, tracked>>

\* One run of _process_pending_number_posts (in the metrics thread): an
\* options message of the history without the robot marker and with a number
\* reaction is posted to X, then marked; an exception of either call is
\* caught and reported.  A run that finds no such message, or in which
\* post_to_x raises, changes nothing.
WatcherScan ==
    /\ flow = "morning"
    /\ LET m == msgs["options"]
           sel == watcher_selected(m.rx)
       IN  /\ m.posted /\ ROBOT_REACTION \notin m.rx /\ sel # "none" /\ tweetPubs < MaxPubs
           /\ \E out \in {"marker_raises", "ok"} :
                 /\ tweetPubs' = tweetPubs + 1
                 /\ lastPub' = [any |-> TRUE, by |-> "watcher", kind |-> "tweet",
                                text |-> OptionText(sel)]
                 /\ msgs' = IF out = "ok"
                            THEN [msgs EXCEPT !["options"].rx = @ \cup {ROBOT_REACTION}]
                            ELSE msgs
    /\ UNCHANGED <<ledgerVars, schedVars, laterVars>>
    /\ UNCHANGED <<flow, pc, actions, idx, thread, resp, draft, selected, nopps, si,
                   allowedJust, lastGen, lastWait, tracked>>

\* the numbers re.findall(r"\d+") finds in the first reply under the header:
\* the scan's own line "1) @user ... Score: .. tweet_id=..", so 1 and then
\* other numbers; nopps + 1 stands for a number that is no shortlist index
RECURSIVE SeqsUpTo(_, _)
SeqsUpTo(S, n) ==
    IF n = 0 THEN {<<>>}
    ELSE SeqsUpTo(S, n - 1) \cup
         {Append(s, x) : s \in {q \in SeqsUpTo(S, n - 1) : Len(q) = n - 1}, x \in S}

Selections(n) == {<<1>> \o s : s \in SeqsUpTo(1..(n + 1), MaxSelected - 1)}

\* what the operator has written under the header by the time the scan
\* reads the thread, after the lines of the shortlist: nothing, or one index
OperatorSelections(n) == {<<>>} \cup {<<i>> : i \in 1..n}

\* run_opportunity_scan up to the loop over selected: the shortlist is
\* fetched (an exception ends the scan), posted, and the first thread reply
\* that holds a digit is parsed as the selection.
ScanBegin ==
    /\ flow = "scan" /\ pc = "start"
    /\ \/ /\ pc' = "aborted"
          /\ UNCHANGED <<nopps, selected, si, opSel>>
       \/ /\ pc' = "scan_done"
          /\ UNCHANGED <<nopps, selected, si, opSel>>
       \/ \E n \in 1..MaxOpps :
             /\ nopps' = n
             /\ \E sel \in Selections(n) : selected' = sel
             /\ opSel' \in OperatorSelections(n)
             /\ si' = 1
             /\ pc' = "scan_loop"
    /\ UNCHANGED <<ledgerVars, schedVars, quietVars, cards>>
    /\ UNCHANGED <<flow, actions, idx, msgs, thread, resp, draft,
                   allowedJust, lastGen, lastWait, lastPub,
                   tweetPubs, tracked>>

\* by_idx.get(idx) is None: continue
ScanSkipsIndex ==
    /\ flow = "scan" /\ pc = "scan_loop"
    /\ si <= Len(selected)
    /\ selected[si] \notin 1..nopps
    /\ si' = si + 1
    /\ UNCHANGED <<ledgerVars, schedVars, laterVars>>
    /\ UNCHANGED <<flow, pc, actions, idx, msgs, thread, resp, draft, selected,
                   nopps, allowedJust, lastGen, lastWait, lastPub,
                   tweetPubs, tracked>>

\* A mutant of after_allow: the loop goes on to generate after a refusal.
after_allow_goes_on(allowed) == "scan_gen"

\* where the loop of run_opportunity_scan goes after the budget check: to
\* the generation, or, on False, to the message "Budget reached; drafts
\* paused for today." in the thread and the return
after_allow(allowed) == IF allowed THEN "scan_gen" ELSE "budget_paused"

\* the budget check before generating: on False the budget message is
\* posted and the scan returns
ScanAllow ==
    /\ flow = "scan" /\ pc = "scan_loop"
    /\ si <= Len(selected)
    /\ selected[si] \in 1..nopps
    /\ LedgerCall(COST_PER_DRAFT)
    /\ allowedJust' = budget_allow(state, today, COST_PER_DRAFT).ret
    /\ pc' = after_allow(budget_allow(state, today, COST_PER_DRAFT).ret)
    /\ UNCHANGED <<schedVars, laterVars>>
    /\ UNCHANGED <<flow, actions, idx, msgs, thread, resp, draft, selected,
                   nopps, si, lastGen, lastWait, lastPub,
                   tweetPubs, tracked>>

\* get_tweet, _generate_reply_single, the draft posted in the thread; no
\* exception is caught
ScanGen ==
    /\ flow = "scan" /\ pc = "scan_gen"
    /\ \E out \in {"fetch_raises", "gen_raises", "ok"} :
        /\ lastGen' = IF out = "fetch_raises" THEN lastGen
                      ELSE [any |-> TRUE, site |-> "scan", gated |-> allowedJust]
        /\ IF out = "ok"
           THEN si' = si + 1 /\ pc' = "scan_loop"
           ELSE pc' = "aborted" /\ UNCHANGED si
    /\ allowedJust' = FALSE
    /\ UNCHANGED <<ledgerVars, schedVars, laterVars>>
    /\ UNCHANGED <<flow, actions, idx, msgs, thread, resp, draft, selected,
                   nopps, lastWait, lastPub, tweetPubs, tracked>>

\* the loop is over: the posting pass reads the thread it has just written
ScanLoopEnds ==
    /\ flow = "scan" /\ pc = "scan_loop"
    /\ si > Len(selected)
    /\ pc' = "scan_done"
    /\ UNCHANGED <<ledgerVars, schedVars, laterVars>>
    /\ UNCHANGED <<flow, actions, idx, msgs, thread, resp, draft, selected,
                   nopps, si, allowedJust, lastGen, lastWait, lastPub,
                   tweetPubs, tracked>>

FlowNext ==
    \/ MorningBegin
    \/ NextAction
    \/ PollReturns
    \/ WaitTimesOut
    \/ GenOptions
    \/ PublishTweet
    \/ GenDraft
    \/ DraftEdit
    \/ DraftRegen
    \/ DraftPost
    \/ \E k \in CardKinds : \E name \in OperatorNames(k) : OperatorReact(k, name)
    \/ \E text \in {"edit1", "edit2", "chat"} : OperatorReply(text)
    \/ WatcherScan
    \/ ScanBegin
    \/ ScanSkipsIndex
    \/ ScanAllow
    \/ ScanGen
    \/ ScanLoopEnds

SpecFlows == FlowInit /\ [][FlowNext]_vars

----------------------------------------------------------------------------
AllowStep == callBit' # callBit
SameDay(s) == s.dated /\ s.date = today

\* C1: over allow calls made on one day, the persisted spend never exceeds
\* the daily cap by more than the last accepted single cost.
C1_SpendWithinCap ==
    SameDay(state) => state.spend <= DAILY_TOKEN_BUDGET_USD + lastAccepted

C1_Witness ==
    /\ SameDay(state)
    /\ state.spend = DAILY_TOKEN_BUDGET_USD
    /\ lastAccepted > 0
    /\ ret

\* C2 as stated: once allow has returned false on a day, every later allow
\* call of that day, whatever its cost, returns false.
C2_Original ==
    [][(AllowStep /\ rejMin.any) => ret' = FALSE]_vars

\* C2 amended: once allow(c) has returned false on a day, every later allow
\* call of that day with a cost of at least c returns false.
C2_RejectionMonotone ==
    [][(AllowStep /\ rejMin.any /\ cost' >= rejMin.min) => ret' = FALSE]_vars

C2_Witness ==
    /\ rejMin.any
    /\ ret = FALSE
    /\ cost > rejMin.min

\* C3: allow is a check-and-increment.  With s1 the state after the date
\* reset: if s1.spend + cost exceeds the cap the call returns false and
\* saves s1 with spend and draft count untouched; otherwise it returns true
\* and saves spend + cost and draft count + 1.
C3_CheckAndIncrement ==
    [][AllowStep =>
        LET s1spend == IF SameDay(state) THEN state.spend ELSE 0
            s1drafts == IF SameDay(state) THEN state.drafts ELSE 0
        IN  /\ state'.dated /\ state'.date = today
            /\ IF s1spend + cost' > DAILY_TOKEN_BUDGET_USD
               THEN /\ ret' = FALSE
                    /\ state'.spend = s1spend
                    /\ state'.drafts = s1drafts
               ELSE /\ ret' = TRUE
                    /\ state'.spend = s1spend + cost'
                    /\ state'.drafts = s1drafts + 1]_vars

C3_Witness ==
    /\ SameDay(state)
    /\ ret = FALSE
    /\ rejMin.any
    /\ state.spend > 0
    /\ state.drafts > 0

\* C4: from a fresh day with cap 0.50, consecutive allow(0.04) calls return
\* true exactly 12 times (spend 0.48, 12 drafts); the 13th returns false and
\* leaves spend 0.48 and 12 drafts.
C4_TwelveThenReject ==
    (run.pure /\ run.n > 0) =>
        /\ SameDay(state)
        /\ run.n <= 12 => (ret /\ state.spend = 4 * run.n /\ state.drafts = run.n)
        /\ run.n >= 13 => (~ret /\ state.spend = 48 /\ state.drafts = 12)

C4_Witness ==
    /\ run.pure
    /\ run.n = 13
    /\ ~ret
    /\ state.spend = 48

----------------------------------------------------------------------------
Pairs(s) == {p \in (DOMAIN s) \X (DOMAIN s) : p[1] < p[2]}

\* C6: a task is dispatched at most once per minute bucket, over any
\* sequence of ticks; every dispatch is of a task whose predicate held in
\* that bucket, and the bucket recorded for a task is that of its last
\* dispatch.
C6_OncePerBucket ==
    /\ \A p \in Pairs(units) :
          ~(units[p[1]].task = units[p[2]].task
            /\ units[p[1]].bucket = units[p[2]].bucket)
    /\ \A i \in DOMAIN units :
          /\ should_run_task(units[i].task, units[i].bucket * 60)
          /\ last_run[units[i].task].set
          /\ last_run[units[i].task].bucket >= units[i].bucket
    /\ \A k \in TaskNames :
          last_run[k].set =>
              \E i \in DOMAIN units :
                  units[i].task = k /\ units[i].bucket = last_run[k].bucket

\* two loop iterations in one minute in which a task was due and dispatched
C6_Witness ==
    /\ Len(tickLog) = 2
    /\ tickLog[1] = tickLog[2]
    /\ \E i \in DOMAIN units : units[i].bucket = tickLog[2]

\* C7: an exception raised by a task body is caught at the unit boundary:
\* no thread ever ends with an uncaught exception, and the step in which a
\* thread ends changes neither the loop's state (clock reading, last_run,
\* iterations) nor any other thread.
C7_FailureContained ==
    /\ [](\A i \in DOMAIN units :
             units[i].status \in {"running", "completed", "caught"})
    /\ [][(\E i \in DOMAIN units : units'[i].status # units[i].status /\ Len(units') = Len(units))
            => /\ UNCHANGED <<now, last_run, ticks, tickLog>>
               /\ \A i, j \in DOMAIN units :
                    (units'[i].status # units[i].status /\ j # i)
                        => units'[j] = units[j]]_vars

\* a thread has failed, and a thread dispatched by a later tick runs on while
\* an earlier-dispatched one has also failed or still runs
C7_Witness ==
    \E i, j \in DOMAIN units :
        /\ units[i].status = "caught"
        /\ units[j].bucket > units[i].bucket
        /\ units[j].status \in {"running", "completed"}

----------------------------------------------------------------------------
(* Claims about the workflows *)

\* C5: every call to the generation backend made by a workflow is
\* immediately preceded by an allow(cost) call that returned true; none is
\* made after allow returned false or without calling allow.
C5_GenerationGated == lastGen.any => lastGen.gated

\* the option the operator's reaction on the options card stands for
signalled == poll(lastWait.op, "options")

\* C8: a wait during which the operator gave no signal resolves to None (the
\* stage's default branch), and the session makes no publish call in a
\* stage whose last wait had no signal of the operator, although the session
\* itself put the candidate reactions on the card.
C8_NoSignalNoPublish ==
    /\ (lastWait.any /\ lastWait.op = {}) => lastWait.resp = "none"
    /\ (lastPub.any /\ lastPub.by = "session") => lastWait.op # {}

\* C9: when the operator signals option k on the options card, the wait
\* resolves to k, every publish call made is of the text of option k, and
\* when the stage is over the text was published exactly once and exactly
\* one selection event was recorded.
C9_SignalledOptionOnly ==
    (lastWait.any /\ lastWait.card = "options" /\ signalled # "none") =>
        /\ lastWait.resp = signalled
        /\ lastPub.any => lastPub.text = OptionText(signalled)
        /\ tweetPubs <= 1
        /\ tracked <= 1
        /\ pc = "next" => (tweetPubs = 1 /\ tracked = 1)

\* C10: a message whose content was published carries the marker reaction
\* afterwards, and the content of one message is published at most once,
\* whoever published it (the session or the watcher) and whether or not the
\* marker could be attached.
C10_PublishedOnceAndMarked ==
    /\ tweetPubs <= 1
    /\ tweetPubs >= 1 => ROBOT_REACTION \in msgs["options"].rx

----------------------------------------------------------------------------
(* Scoring: coach.py _score_opportunity.  Minutes and counts are whole     *)
(* numbers; sqrt(base) + recency * 0.2 is truncated exactly, without       *)
(* floating point.                                                         *)

MetricValues == {0, 1, 4, 100, 900}
MinuteValues == {-60, 0, 60, 119, 120, 500, 9999}
Tiers == 1..3

Max(a, b) == IF a > b THEN a ELSE b

\* the whole part of base ** 0.5; values above 100 are not told apart, the
\* score being min(100, ...) of a sum of non-negative terms
root(n) == CHOOSE r \in 0..100 : r * r <= n /\ (r = 100 \/ (r + 1) * (r + 1) > n)

\* tier boosts handed out the other way round
tier_boost_swapped(tier) == IF tier = 1 THEN 20 ELSE IF tier = 2 THEN 50 ELSE 0

tier_boost(tier) == IF tier = 1 THEN 50 ELSE IF tier = 2 THEN 20 ELSE 0

\* the score without min(100, ...)
score_unclamped(tier, metrics, minutes_ago) ==
    root(metrics.like_count + 2 * (metrics.retweet_count + metrics.repost_count)
         + 3 * metrics.reply_count)
    + Max(0, 120 - minutes_ago) \div 5 + tier_boost(tier)

score_opportunity(tier, metrics, minutes_ago) ==
    LET likes == metrics.like_count
        rts == metrics.retweet_count + metrics.repost_count
        replies == metrics.reply_count
        base == likes * 1 + rts * 2 + replies * 3
        recency == Max(0, 120 - minutes_ago)
        r0 == root(base)
        \* recency * 0.2 = q + s / 5; the fifths carry into the whole part
        \* when sqrt(base) + s / 5 >= r0 + 1
        q == recency \div 5
        s == recency % 5
        carry == IF r0 < 100 /\ 25 * base >= (5 * (r0 + 1) - s) * (5 * (r0 + 1) - s)
                 THEN 1 ELSE 0
    IN  Min(100, r0 + carry + q + tier_boost(tier))

ScoreInit ==
    /\ cand \in [tier : Tiers, like_count : MetricValues, retweet_count : MetricValues,
                 repost_count : {0, 1}, reply_count : MetricValues,
                 minutes_ago : MinuteValues]
    /\ score = -1
    /\ LedgerIdle /\ SchedIdle /\ FlowIdle /\ OtherIdle /\ MoreIdle
    /\ ShortIdle /\ best = "none" /\ LearnIdle /\ SamplerIdle

\* one call _score_opportunity(tier, metrics, minutes_ago)
ScoreCall ==
    /\ score = -1
    /\ score' = score_opportunity(cand.tier, cand, cand.minutes_ago)
    /\ UNCHANGED <<cand, ledgerVars, schedVars, flowVars>>
    /\ UNCHANGED <<shortVars, best, learnVars, samplerVars, otherVars, moreVars>>

ScoreNext == ScoreCall

SpecScore == ScoreInit /\ [][ScoreNext]_vars

\* sqrt(B) + R / 5 + T >= k for the inputs c, in whole numbers
ValueAtLeast(c, k) ==
    LET B == c.like_count + 2 * (c.retweet_count + c.repost_count) + 3 * c.reply_count
        R == IF 120 - c.minutes_ago > 0 THEN 120 - c.minutes_ago ELSE 0
        T == CASE c.tier = 1 -> 50 [] c.tier = 2 -> 20 [] OTHER -> 0
        x == 5 * (k - T) - R
    IN  x <= 0 \/ 25 * B >= x * x

\* C13: for every tier, counts and minutes (above 120 and negative ones
\* included) the score is an integer in [0,100] and is the truncation of
\* min(100, sqrt(likes + 2*(retweets+reposts) + 3*replies)
\*          + 0.2*max(0, 120 - minutes) + tierBonus).
C13_ScoreIsTruncatedFormula ==
    score # -1 =>
        /\ score \in 0..100
        /\ ValueAtLeast(cand, score)
        /\ score = 100 \/ ~ValueAtLeast(cand, score + 1)

C13_Witness ==
    /\ score \in 1..99
    /\ cand.minutes_ago < 0
    /\ cand.repost_count > 0
    /\ cand.like_count > 0

\* C14: the score does not decrease when likes, retweets or replies grow or
\* when the tier gets a higher priority (tier 1 highest), the other inputs
\* fixed; and it lies in [0,100].
C14_ScoreMonotone ==
    score # -1 =>
        /\ score \in 0..100
        /\ \A v \in MetricValues :
              /\ v >= cand.like_count =>
                   score_opportunity(cand.tier, [cand EXCEPT !.like_count = v],
                                     cand.minutes_ago) >= score
              /\ v >= cand.retweet_count =>
                   score_opportunity(cand.tier, [cand EXCEPT !.retweet_count = v],
                                     cand.minutes_ago) >= score
              /\ v >= cand.reply_count =>
                   score_opportunity(cand.tier, [cand EXCEPT !.reply_count = v],
                                     cand.minutes_ago) >= score
        /\ \A t \in Tiers :
              t <= cand.tier =>
                   score_opportunity(t, cand, cand.minutes_ago) >= score

C14_Witness ==
    /\ score # -1
    /\ cand.tier = 2
    /\ score < 100
    /\ score_opportunity(1, cand, cand.minutes_ago) > score
    /\ score_opportunity(3, cand, cand.minutes_ago) < score
    /\ score_opportunity(2, [cand EXCEPT !.like_count = 900], cand.minutes_ago) > score

----------------------------------------------------------------------------
(* Shortlist: coach.py _fetch_opportunities *)

\* shortlist[:15]
SHORTLIST_CAP == 15

\* kinds of tweets the X API returns for the creators, by the creator's
\* tier and the like count (no created_at: minutes_ago is 9999); their scores
\* are 50, 80, 79, 80, 85, 90
TweetKinds ==
    <<[tier |-> 1, like_count |-> 0],
      [tier |-> 1, like_count |-> 900],
      [tier |-> 2, like_count |-> 3481],
      [tier |-> 2, like_count |-> 3600],
      [tier |-> 3, like_count |-> 7225],
      [tier |-> 3, like_count |-> 8100]>>

MaxBulk == 8
CountChoices == {0, 1, 2, MaxBulk}

\* the Opportunity built for a tweet of kind k, the id-th of opps
Opportunity(k, id) ==
    [id |-> id, tier |-> TweetKinds[k].tier, idx |-> 0,
     score |-> score_opportunity(TweetKinds[k].tier,
                                 [NoCand EXCEPT !.like_count = TweetKinds[k].like_count],
                                 9999)]

\* opps after the loops over the tiers, their names and their tweets, n[k]
\* tweets of kind k being returned
RECURSIVE opps_of(_, _)
opps_of(n, k) ==
    IF k = 0 THEN <<>>
    ELSE LET before == opps_of(n, k - 1)
         IN  before \o [i \in 1..n[k] |-> Opportunity(k, Len(before) + i)]

\* filters that leave out the scores 80 and 90 themselves
eligible_strict(o) ==
    \/ o.tier = 1
    \/ o.tier = 2 /\ o.score > 80
    \/ o.tier = 3 /\ o.score > 90

\* the three filters of the shortlist: every tier 1, tier 2 from 80, tier 3 from 90
eligible(o) ==
    \/ o.tier = 1
    \/ o.tier = 2 /\ o.score >= 80
    \/ o.tier = 3 /\ o.score >= 90

\* list.sort(key=score, reverse=True): stable, equal scores keep their order
insert_desc(s, o) ==
    LET k == Cardinality({i \in DOMAIN s : s[i].score >= o.score})
    IN  SubSeq(s, 1, k) \o <<o>> \o SubSeq(s, k + 1, Len(s))

RECURSIVE sort_desc(_, _)
sort_desc(s, n) == IF n = 0 THEN <<>> ELSE insert_desc(sort_desc(s, n - 1), s[n])

\* rank indices taken from the position in opps
ranked_by_position(s) == [j \in DOMAIN s |-> [s[j] EXCEPT !.idx = s[j].id]]

\* for i, o in enumerate(shortlist[:15], start=1): o.idx = i
ranked(s) == [j \in DOMAIN s |-> [s[j] EXCEPT !.idx = j]]

fetch_shortlist(os) ==
    LET picked == SelectSeq(os, eligible)
        sorted == sort_desc(picked, Len(picked))
    IN  ranked(SubSeq(sorted, 1, Min(Len(sorted), SHORTLIST_CAP)))

ShortInit ==
    /\ \E n \in [DOMAIN TweetKinds -> CountChoices] : opps = opps_of(n, Len(TweetKinds))
    /\ shortlist = <<>>
    /\ fetched = FALSE
    /\ LedgerIdle /\ SchedIdle /\ FlowIdle /\ OtherIdle /\ MoreIdle
    /\ ScoreIdle /\ best = "none" /\ LearnIdle /\ SamplerIdle

\* _fetch_opportunities returns
Fetch ==
    /\ ~fetched
    /\ shortlist' = fetch_shortlist(opps)
    /\ fetched' = TRUE
    /\ UNCHANGED <<opps, ledgerVars, schedVars, flowVars>>
    /\ UNCHANGED <<scoreVars, best, learnVars, samplerVars, otherVars, moreVars>>

ShortNext == Fetch

SpecShortlist == ShortInit /\ [][ShortNext]_vars

InShortlist(o) == \E j \in DOMAIN shortlist : shortlist[j].id = o.id

\* C11: the shortlist holds every tier-1 candidate whatever its score, also
\* when more than 15 candidates pass the filters and the list is capped.
C11_EveryTierOneListed ==
    fetched => \A i \in DOMAIN opps : opps[i].tier = 1 => InShortlist(opps[i])

C15_CappedSortedRanked ==
    fetched =>
        /\ Len(shortlist) <= 15
        /\ \A j \in 1..(Len(shortlist) - 1) : shortlist[j].score >= shortlist[j + 1].score
        /\ \A j \in DOMAIN shortlist : shortlist[j].idx = j

C15_Witness ==
    /\ fetched
    /\ Len(opps) > 15
    /\ Len(shortlist) = 15
    /\ shortlist[1].score > shortlist[15].score
    /\ shortlist[1].id # 1

----------------------------------------------------------------------------
(* Theme weights: coach.py _update_theme_weights_from_metrics, _pick_theme *)

MaxPosts == 2
MaxThemeDrafts == 2
MaxNotes == 1

\* key order of the themes dict (the default literal, kept by the json file)
ThemeOrder == <<"metrics", "build_in_public", "positioning", "technical", "hot_take">>

\* scores of the themes, in tenths, for n1 posts with numbers, n2 posts
\* that ask a question and n3 other posts in the last 24 hours
theme_scores(n1, n2, n3) ==
    [k \in ThemeNames |->
        CASE k = "metrics" -> 10 * n1
          [] k = "positioning" -> 7 * n2
          [] k = "build_in_public" -> 5 * n3
          [] OTHER -> 0]

\* max(scores, key=...): the first key, in dict order, with the largest score
RECURSIVE first_max(_, _)
first_max(sc, i) ==
    IF \A j \in DOMAIN ThemeOrder : sc[ThemeOrder[j]] <= sc[ThemeOrder[i]]
    THEN ThemeOrder[i]
    ELSE first_max(sc, i + 1)

\* A mutant of pick_theme: the non-exploring branch takes the last theme of
\* the dict.
pick_theme_last(themes, explore, r) ==
    IF explore THEN r ELSE ThemeOrder[Len(ThemeOrder)]

\* _pick_theme: with probability 0.25 random.choice over the keys (r is the
\* key drawn), otherwise max(themes, key=...), the first key of the dict
\* with the largest weight
pick_theme(themes, explore, r) ==
    IF explore THEN r ELSE first_max(themes, 1)

\* a reward without the cap
reward_uncapped(w) == w + 1

\* min(5, themes[best] + 1)
reward(w) == Min(5, w + 1)

\* A mutant of decay: the other themes keep their weight.
decay_none(w) == w

\* max(1, int(themes[k] * 0.9))
decay(w) == Max(1, (w * 9) \div 10)

update_theme_weights(s, n1, n2, n3) ==
    LET b == first_max(theme_scores(n1, n2, n3), 1)
    IN  [best |-> b,
         state |-> [s EXCEPT !.themed = TRUE,
                             !.themes = [k \in ThemeNames |->
                                           IF k = b THEN reward(s.themes[k])
                                           ELSE decay(s.themes[k])]]]

ThemeInit ==
    /\ LedgerStart
    /\ SchedIdle /\ FlowIdle /\ LaterIdle

\* the posts of the last 24 hours, by kind: at most MaxPosts in all
PostWindows ==
    {p \in (0..MaxPosts) \X (0..MaxPosts) \X (0..MaxPosts) : p[1] + p[2] + p[3] <= MaxPosts}

\* run_summary calls _update_theme_weights_from_metrics
UpdateThemeWeights ==
    /\ \E p \in PostWindows :
          LET n1 == p[1]  n2 == p[2]  n3 == p[3]
              u == update_theme_weights(state, n1, n2, n3)
          IN
          /\ state' = u.state
          /\ best' = u.best
          /\ window' = [bit |-> ~window.bit, posts |-> <<n1, n2, n3>>]
    /\ pick' = [NoPick EXCEPT !.bit = pick.bit]
    /\ UNCHANGED <<today, ledgerHist, schedVars, flowVars>>
    /\ UNCHANGED <<scoreVars, shortVars, learnVars, samplerVars, otherVars>>
    /\ UNCHANGED <<configVars, genVars, threadVars>>

\* generate_coaching_card calls _pick_theme: the weights are read, one theme
\* is drawn, the themes are written back as they were
\* the draws of random.random() < 0.25 and of random.choice: the key drawn
\* matters in the exploring branch only
PickDraws ==
    {[explore |-> TRUE, r |-> k] : k \in ThemeNames}
        \cup {[explore |-> FALSE, r |-> ThemeOrder[1]]}

PickTheme ==
    /\ state' = pick_theme_save(state)
    /\ \E d \in PickDraws :
          pick' = [bit |-> ~pick.bit, theme |-> pick_theme(state.themes, d.explore, d.r),
                   explored |-> d.explore]
    /\ window' = [NoWindow EXCEPT !.bit = window.bit]
    /\ UNCHANGED <<today, ledgerHist, schedVars, flowVars>>
    /\ UNCHANGED <<scoreVars, shortVars, best, learnVars, samplerVars, otherVars>>
    /\ UNCHANGED <<configVars, genVars, threadVars>>

\* a draft of the day is charged to the ledger that shares state.json with
\* the theme weights
ThemeAllow ==
    /\ budget_allow(state, today, COST_PER_DRAFT).state.drafts <= MaxThemeDrafts
    /\ Allow(COST_PER_DRAFT)

ThemeNext ==
    \/ UpdateThemeWeights
    \/ PickTheme
    \/ ThemeAllow
    \/ NextDay

SpecThemes == ThemeInit /\ [][ThemeNext]_vars

\* C16: from theme weights in [1,5], after any sequence of theme-weight
\* updates (whatever the posts of the window, none included) and theme
\* selections, every theme's weight is an integer in [1,5].
C16_ThemeWeightsInRange == \A k \in ThemeNames : state.themes[k] \in 1..5

C16_Witness ==
    /\ state.themed
    /\ best = "positioning"
    /\ state.themes["positioning"] = 4
    /\ state.themes["metrics"] = 2
    /\ state.themes["build_in_public"] = 1

----------------------------------------------------------------------------
(* Learning: coach.py track_user_choice and                                *)
(* _update_learning_success_from_snapshot.  A weight is held in millionths *)
(* (0.5 is 500000); a product that has more digits is cut off.             *)

MaxLearnOps == 3
\* number of earlier selections the learning file may hold at the start
DecayRun == 20

WEIGHT_MIN == 50000
WEIGHT_MAX == 950000

\* the keys of feats that are truthy for a chosen text: len always is
TextKinds ==
    {{"len"}, {"len", "has_numbers"}, {"len", "asks_question", "is_personal_story"}}

\* the feature keys a logged post event holds (_text_features), among the
\* keys the success update walks
RecordedKeys == {"has_numbers", "asks_question", "emoji_count", "len"}

\* min(0.95, weight * 0.99 + (1 if feats.get(key) else 0) * 0.01)
pick_weight(w, hit) == Min(WEIGHT_MAX, (w * 99) \div 100 + (IF hit THEN 10000 ELSE 0))

track_user_choice(L, truthy) ==
    [k \in FeatureKeys |->
        [picks |-> L[k].picks + 1,
         successes |-> L[k].successes,
         weight |-> pick_weight(L[k].weight, k \in truthy)]]

\* min(0.95, max(0.05, successes / picks)), picks being max(1, picks)
success_weight(successes, picks) ==
    Min(WEIGHT_MAX, Max(WEIGHT_MIN, (successes * 1000000) \div Max(1, picks)))

\* the success update for a snapshot; found: a post event of kind tweet with
\* the snapshot's tweet_id is in log.jsonl
update_learning_success(L, likes, replies, found) ==
    IF ~found \/ ~(likes >= 5 \/ replies >= 1) THEN L
    ELSE [k \in FeatureKeys |->
            IF k \notin RecordedKeys THEN L[k]
            ELSE [picks |-> L[k].picks,
                  successes |-> L[k].successes + 1,
                  weight |-> success_weight(L[k].successes + 1, L[k].picks)]]

\* learning.json after n selections of a text with no feature but its
\* length: track_user_choice applied n times to the fresh file
RECURSIVE weight_after(_, _)
weight_after(n, hit) ==
    IF n = 0 THEN FreshFeature.weight ELSE pick_weight(weight_after(n - 1, hit), hit)

after_picks(n) ==
    [k \in FeatureKeys |->
        [picks |-> n, successes |-> 0, weight |-> weight_after(n, k = "len")]]

LearnInit ==
    /\ learning \in {after_picks(0), after_picks(DecayRun)}
    /\ lops = 0
    /\ snapIn = NoSnap
    /\ LedgerIdle /\ SchedIdle /\ FlowIdle /\ OtherIdle /\ MoreIdle
    /\ ScoreIdle /\ ShortIdle /\ best = "none" /\ SamplerIdle

\* run_morning_session records the operator's choice
TrackChoice ==
    /\ lops < MaxLearnOps
    /\ \E truthy \in TextKinds : learning' = track_user_choice(learning, truthy)
    /\ lops' = lops + 1
    /\ snapIn' = NoSnap
    /\ UNCHANGED <<ledgerVars, schedVars, flowVars>>
    /\ UNCHANGED <<scoreVars, shortVars, best, samplerVars, otherVars, moreVars>>

\* run_background_metrics hands a 24h snapshot to the success update
SnapshotUpdate ==
    /\ lops < MaxLearnOps
    /\ \E likes \in {0, 5, 6}, replies \in {0, 1}, found \in BOOLEAN :
          /\ learning' = update_learning_success(learning, likes, replies, found)
          /\ snapIn' = [any |-> TRUE, likes |-> likes, replies |-> replies, found |-> found]
          /\ lops' = IF found /\ (likes >= 5 \/ replies >= 1) THEN lops + 1 ELSE lops
    /\ UNCHANGED <<ledgerVars, schedVars, flowVars>>
    /\ UNCHANGED <<scoreVars, shortVars, best, samplerVars, otherVars, moreVars>>

LearnNext == TrackChoice \/ SnapshotUpdate

SpecLearning == LearnInit /\ [][LearnNext]_vars

\* C17: after every write of a feature's weight (a recorded selection or a
\* success update), and after any sequence of them, the weight lies in
\* [0.05, 0.95].
C17_FeatureWeightInRange ==
    \A k \in FeatureKeys : learning[k].weight \in WEIGHT_MIN..WEIGHT_MAX

\* C18: processing a 24h snapshot with likes = 6 of a published item
\* increments the success counter of each recorded feature and makes each of
\* these features' weights larger than before, whatever the picks and
\* successes counts were.
C18_SuccessRaisesWeights ==
    [][(snapIn'.any /\ snapIn'.found /\ snapIn'.likes = 6 /\ snapIn' # snapIn) =>
          \A k \in RecordedKeys :
             /\ learning'[k].successes = learning[k].successes + 1
             /\ learning'[k].weight > learning[k].weight]_vars

----------------------------------------------------------------------------
(* Metrics sampler: coach.py _background_metrics_fetch for one logged post. *)
(* Time is the age of the post in minutes, taken at the instants around the *)
(* four capture windows.                                                    *)

MaxSnaps == 2
MaxSuccesses == 3

\* intervals = [(30, "30m"), (120, "2h"), (360, "6h"), (1440, "24h")]
Target(l) ==
    CASE l = "30m" -> 30 [] l = "2h" -> 120 [] l = "6h" -> 360 [] l = "24h" -> 1440

Instants ==
    {0, 26, 30, 34, 36, 116, 120, 124, 356, 360, 364, 1436, 1440, 1444, 1446,
     1466, 1470, 4350}

\* the post is logged on a half hour of the scheduler, or 4 minutes before one
Offsets == {0, 4}

\* abs(age_minutes - target_mins) < 5
in_window(age, l) ==
    (IF age >= Target(l) THEN age - Target(l) ELSE Target(l) - age) < 5

\* one run at age a: for each interval whose window holds a, the metrics are
\* fetched and, unless the fetch came back empty, a snapshot is appended
background_metrics_fetch(sn, a, fetchOk) ==
    [l \in Labels |-> IF in_window(a, l) /\ fetchOk THEN sn[l] + 1 ELSE sn[l]]

\* what _fetch_tweet_metrics returns: like and reply counts
FetchedMetrics == {[likes |-> 4, replies |-> 0], [likes |-> 5, replies |-> 0]}

\* cutoff of _get_recent_metrics: two days, in minutes
RECENT_MINUTES == 2880

\* the loop of run_background_metrics over the snapshots _get_recent_metrics
\* returns: every 24h snapshot written in the last two days is handed to
\* _update_learning_success_from_snapshot, which finds the features of the
\* post in log.jsonl when the post is a tweet
RECURSIVE learn_from_snapshots(_, _, _, _, _)
learn_from_snapshots(L, sq, i, nowc, kind) ==
    IF i > Len(sq) THEN L
    ELSE learn_from_snapshots(
            IF nowc - sq[i].ts <= RECENT_MINUTES
            THEN update_learning_success(L, sq[i].likes, sq[i].replies, kind = "tweet")
            ELSE L,
            sq, i + 1, nowc, kind)

SamplerInit ==
    /\ clock = 0
    /\ offset \in Offsets
    /\ lastSched = -1
    /\ snaps = [l \in Labels |-> 0]
    /\ item \in {"tweet", "reply"}
    /\ snaps24 = <<>>
    /\ learning = after_picks(1)
    /\ lops = 0
    /\ snapIn = NoSnap
    /\ LedgerIdle /\ SchedIdle /\ FlowIdle /\ OtherIdle /\ MoreIdle
    /\ ScoreIdle /\ ShortIdle /\ best = "none"

\* time passes
Advance ==
    /\ \E i \in Instants : i > clock /\ clock' = i
    /\ UNCHANGED <<offset, lastSched, snaps, item, snaps24>>
    /\ UNCHANGED <<ledgerVars, schedVars, flowVars>>
    /\ UNCHANGED <<scoreVars, shortVars, best, learnVars, otherVars, moreVars>>

\* one run of run_background_metrics: _background_metrics_fetch, then the
\* learning update from the 24h snapshots on file
SamplerRun ==
    /\ \E fetchOk \in BOOLEAN, m \in FetchedMetrics :
          LET took24 == fetchOk /\ in_window(clock, "24h")
              file == IF took24
                      THEN Append(snaps24, [ts |-> clock, likes |-> m.likes,
                                            replies |-> m.replies])
                      ELSE snaps24
          IN  /\ \A l \in Labels :
                    background_metrics_fetch(snaps, clock, fetchOk)[l] <= MaxSnaps
              /\ snaps' = background_metrics_fetch(snaps, clock, fetchOk)
              /\ snaps24' = file
              /\ learning' = learn_from_snapshots(learning, file, 1, clock, item)
    /\ \A k \in FeatureKeys : learning'[k].successes <= MaxSuccesses
    /\ UNCHANGED <<lops, snapIn>>

\* the service starts the metrics task on a half hour, once for that minute
ScheduledRun ==
    /\ (clock + offset) % 30 = 0
    /\ lastSched # clock
    /\ lastSched' = clock
    /\ SamplerRun
    /\ UNCHANGED <<clock, offset, item>>
    /\ UNCHANGED <<ledgerVars, schedVars, flowVars>>
    /\ UNCHANGED <<scoreVars, shortVars, best, otherVars, moreVars>>

\* the command line task "metrics", at any time
ManualRun ==
    /\ SamplerRun
    /\ UNCHANGED <<clock, offset, lastSched, item>>
    /\ UNCHANGED <<ledgerVars, schedVars, flowVars>>
    /\ UNCHANGED <<scoreVars, shortVars, best, otherVars, moreVars>>

SamplerNext == Advance \/ ScheduledRun \/ ManualRun

SpecSampler == SamplerInit /\ [][SamplerNext]_vars

\* C19: after any sequence of sampler runs, scheduled or manual, two of
\* them inside one capture window included, the snapshot log holds at most
\* one snapshot per (content identifier, age label) pair.
C19_OneSnapshotPerBucket == \A l \in Labels : snaps[l] <= 1

----------------------------------------------------------------------------
(* Failures inside the stages of a session *)

\* the steps of run_morning_session that call the generation backend or the
\* social-platform client
FailingStages == {"gen_options", "publish_tweet", "gen_draft", "draft_regen", "draft_post"}

\* C20: when the generation backend or the social-platform client raises in
\* a stage of a session (generating the options, publishing the chosen one,
\* generating or regenerating a reply draft, publishing a reply), the
\* exception is caught inside the stage and the session goes on to its next
\* stage: no such step ends the session.
C20_StageFailureContained ==
    [][(flow = "morning" /\ pc \in FailingStages) => pc' # "aborted"]_vars

----------------------------------------------------------------------------
(* Order of the stages of a session *)

\* the cards of the session whose wait has not yet returned: a card other
\* than the options message leaves the channel model when its wait returns;
\* the options message stays (the watcher reads it later) and is awaited by
\* the session only while the session polls it
AwaitingCards ==
    {k \in CardKinds \ {"options"} : msgs[k].posted}
        \cup (IF pc = "wait_options" THEN {"options"} ELSE {})

CardPosted(k) == ~msgs[k].posted /\ msgs'[k].posted

\* C21: within one session the stages run strictly in sequence: a card is
\* posted only when no wait of the session is pending, the session then
\* waits on exactly that card, and at most one card of the session awaits a
\* signal at any time.
C21_StagesInSequence ==
    /\ [](flow = "morning" =>
             /\ Cardinality(AwaitingCards) <= 1
             /\ pc \in WaitStates => AwaitingCards = {Awaited(pc)}
             /\ pc \notin WaitStates => AwaitingCards = {})
    /\ [][\A k \in CardKinds :
             CardPosted(k) =>
                 /\ pc \notin WaitStates
                 /\ AwaitingCards = {}
                 /\ pc' \in WaitStates /\ Awaited(pc') = k]_vars

\* the draft card of a reply stage is awaited after the operator answered
\* the reply card, the options message of the earlier stage still standing
C21_Witness ==
    /\ pc = "wait_draft"
    /\ msgs["draft"].posted
    /\ msgs["options"].posted
    /\ ~msgs["reply"].posted

----------------------------------------------------------------------------
(* POST /v1/slack/notify: api/v1/slack.py notify and clients/slack.py *)
(* send_webhook                                                       *)

MaxNotify == 4

\* what becomes of an outbound request: the status the webhook answers
\* with, or no answer at all (connection error, timeout)
HookOutcomes == {"200", "204", "302", "404", "500", "no_answer"}

SuccessStatus == {"200", "204"}
ErrorStatus == {"404", "500"}

\* resp.raise_for_status(): raises HTTPStatusError for a 4xx or 5xx status;
\* for a redirect status it raises in the httpx releases that raise on
\* every status outside 2xx and returns in the earlier ones
raise_for_status(h, strict) ==
    IF h \in ErrorStatus THEN TRUE
    ELSE IF h \in SuccessStatus THEN FALSE
    ELSE strict

\* A mutant of send_webhook: the status of the answer is not looked at.
send_webhook_unchecked(url, h, strict) ==
    IF ~url THEN [requests |-> 0, raised |-> "RuntimeError"]
    ELSE IF h = "no_answer" THEN [requests |-> 1, raised |-> "TransportError"]
    ELSE [requests |-> 1, raised |-> "none"]

\* send_webhook(text): the outbound requests it issues and the exception it
\* leaves with, "none" when it returns
send_webhook(url, h, strict) ==
    IF ~url THEN [requests |-> 0, raised |-> "RuntimeError"]
    ELSE IF h = "no_answer" THEN [requests |-> 1, raised |-> "TransportError"]
    ELSE IF raise_for_status(h, strict) THEN [requests |-> 1, raised |-> "HTTPStatusError"]
    ELSE [requests |-> 1, raised |-> "none"]

\* notify(req): the answer, from the way send_webhook ended
notify(raised) ==
    CASE raised = "none" -> [code |-> 200, body |-> "sent"]
      [] raised = "HTTPStatusError" -> [code |-> 502, body |-> "detail"]
      [] OTHER -> [code |-> 400, body |-> "detail"]

NotifyInit ==
    /\ webhook_url \in BOOLEAN
    /\ hook = "none"
    /\ answer = NoAnswer
    /\ outbound = 0
    /\ answers = [c \in AnswerCodes |-> 0]
    /\ LedgerIdle /\ SchedIdle /\ FlowIdle
    /\ ScoreIdle /\ ShortIdle /\ best = "none" /\ LearnIdle /\ SamplerIdle
    /\ RaceIdle /\ MoreIdle

\* one request POST /v1/slack/notify with a valid body
Notify ==
    /\ answers[200] + answers[400] + answers[502] < MaxNotify
    /\ \E h \in HookOutcomes, strict \in BOOLEAN :
          LET r == send_webhook(webhook_url, h, strict)
          IN  /\ hook' = IF r.requests = 0 THEN "none" ELSE h
              /\ outbound' = outbound + r.requests
              /\ answer' = notify(r.raised)
              /\ answers' = [answers EXCEPT ![notify(r.raised).code] = @ + 1]
    /\ UNCHANGED webhook_url
    /\ UNCHANGED <<ledgerVars, schedVars, flowVars, raceVars, moreVars>>
    /\ UNCHANGED <<scoreVars, shortVars, best, learnVars, samplerVars>>

\* the environment of the process changes: SLACK_WEBHOOK_URL is set or unset
SetWebhook ==
    /\ webhook_url' = ~webhook_url
    /\ UNCHANGED <<hook, answer, outbound, answers>>
    /\ UNCHANGED <<ledgerVars, schedVars, flowVars, raceVars, moreVars>>
    /\ UNCHANGED <<scoreVars, shortVars, best, learnVars, samplerVars>>

NotifyNext == Notify \/ SetWebhook

SpecNotify == NotifyInit /\ [][NotifyNext]_vars

NotifyStep == answers' # answers

\* C22: POST /v1/slack/notify maps the outcome of the webhook send to a
\* status.  With no webhook URL configured it answers 400 and issues no
\* outbound request; when the webhook answers with a success status it
\* issues exactly one outbound request and answers 200 with body "sent";
\* when the webhook answers with an error status (4xx, 5xx) it answers 502;
\* it never answers "sent" when no URL is configured, when the webhook gave
\* no answer or when it answered with an error status.
C22_NotifyStatus ==
    [][NotifyStep =>
        /\ ~webhook_url => (answer'.code = 400 /\ outbound' = outbound)
        /\ webhook_url => outbound' = outbound + 1
        /\ (webhook_url /\ hook' \in SuccessStatus) =>
               answer' = [code |-> 200, body |-> "sent"]
        /\ (webhook_url /\ hook' \in ErrorStatus) => answer'.code = 502
        /\ answer'.body = "sent" =>
               (webhook_url /\ hook' \notin ErrorStatus \cup {"no_answer", "none"})]_vars

\* the three answers have all been given, the last one for an error status
C22_Witness ==
    /\ answers[200] > 0
    /\ answers[400] > 0
    /\ answers[502] > 0
    /\ hook \in ErrorStatus
    /\ answer.code = 502

----------------------------------------------------------------------------
(* Claims about the clock of the scheduler *)

\* C23: the trigger predicates are evaluated on the hour, minute and day of
\* the week of the wall clock at the configured offset from UTC (UTC+1):
\* every task dispatched was due at the reading of that clock in the minute
\* of its dispatch, so the 07:30 task is dispatched when that clock reads
\* 07:30.
C23_TriggersOnConfiguredClock ==
    \A i \in DOMAIN units :
        should_run_task(units[i].task, units[i].bucket * 60 + TZ_OFFSET)

\* C24: every wall-clock minute is evaluated by a tick, so that no minute in
\* which a task is due is skipped, whatever the time the loop body takes
\* between two sleeps: no due minute lies between the minutes of two
\* consecutive ticks at most two minutes apart.
C24_NoDueMinuteSkipped ==
    (Len(tickLog) = 2 /\ tickLog[2] - tickLog[1] <= 2) =>
        \A m \in (tickLog[1] + 1)..(tickLog[2] - 1) :
            \A k \in TaskNames : ~should_run_task(k, m * 60)

----------------------------------------------------------------------------
(* Two units of one process working on state.json: each operation is a   *)
(* _load_budget_state, a computation on the loaded dict and a            *)
(* _save_budget_state; nothing in coach.py or service.py holds a lock    *)
(* around the three.                                                     *)

\* the operations on state.json a unit may perform
UnitOps ==
    {[kind |-> "allow", cost |-> c, posts |-> <<0, 0, 0>>] : c \in {COST_PER_DRAFT, MaxCost}}
    \cup {[kind |-> "pick_theme", cost |-> 0, posts |-> <<0, 0, 0>>]}
    \cup {[kind |-> "update_themes", cost |-> 0, posts |-> p] :
             p \in {<<1, 0, 0>>, <<0, 1, 0>>, <<0, 0, 1>>}}

\* what the operation saves, from the state it loaded
op_saves(op, s, day) ==
    CASE op.kind = "allow" -> budget_allow(s, day, op.cost).state
      [] op.kind = "pick_theme" -> pick_theme_save(s)
      [] op.kind = "update_themes" ->
            update_theme_weights(s, op.posts[1], op.posts[2], op.posts[3]).state

\* state.json of today, with theme weights
RaceStates ==
    {[ResetState(0) EXCEPT !.themed = TRUE],
     [ResetState(0) EXCEPT !.themed = TRUE, !.themes["metrics"] = 3]}

RaceInit ==
    /\ today = 0
    /\ state \in RaceStates
    /\ cost = 0
    /\ ret = FALSE
    /\ callBit = FALSE
    /\ lastAccepted = 0
    /\ rejMin = NoReject
    /\ run = FreshRun
    /\ upc = [u \in Units |-> "idle"]
    /\ uop = [u \in Units |-> NoOp]
    /\ uloc = [u \in Units |-> EmptyState]
    /\ granted = 0
    /\ lastThemes = state.themes
    /\ SchedIdle /\ FlowIdle /\ NotifyIdle /\ MoreIdle
    /\ ScoreIdle /\ ShortIdle /\ best = "none" /\ LearnIdle /\ SamplerIdle

\* unit u starts an operation: s = _load_budget_state()
UnitLoads(u, op) ==
    /\ upc[u] = "idle"
    /\ upc' = [upc EXCEPT ![u] = "loaded"]
    /\ uop' = [uop EXCEPT ![u] = op]
    /\ uloc' = [uloc EXCEPT ![u] = state]
    /\ UNCHANGED <<granted, lastThemes>>
    /\ UNCHANGED <<ledgerVars, schedVars, flowVars, notifyVars, moreVars>>
    /\ UNCHANGED <<scoreVars, shortVars, best, learnVars, samplerVars>>

\* unit u ends its operation: _save_budget_state(s) of what it computed
\* from the dict it loaded
UnitSaves(u) ==
    /\ upc[u] = "loaded"
    /\ state' = op_saves(uop[u], uloc[u], today)
    /\ granted' = IF uop[u].kind = "allow" /\ budget_allow(uloc[u], today, uop[u].cost).ret
                  THEN granted + uop[u].cost ELSE granted
    /\ lastThemes' = IF uop[u].kind = "update_themes"
                     THEN op_saves(uop[u], uloc[u], today).themes ELSE lastThemes
    /\ upc' = [upc EXCEPT ![u] = "saved"]
    /\ UNCHANGED <<uop, uloc>>
    /\ UNCHANGED <<today, ledgerHist, schedVars, flowVars, notifyVars, moreVars>>
    /\ UNCHANGED <<scoreVars, shortVars, best, learnVars, samplerVars>>

RaceNext ==
    \/ \E u \in Units : \E op \in UnitOps : UnitLoads(u, op)
    \/ \E u \in Units : UnitSaves(u)

SpecRace == RaceInit /\ [][RaceNext]_vars

\* C25: two concurrently running units that both read, modify and write the
\* budget state are serialized, so that no update is lost: when both have
\* finished, the persisted spend is the previous spend plus the sum of the
\* costs for which allow returned true, and the persisted theme weights are
\* those of the last completed theme update.
C25_NoLostUpdate ==
    (\A u \in Units : upc[u] = "saved") =>
        /\ state.spend = granted
        /\ state.themes = lastThemes

----------------------------------------------------------------------------
\* C26: when the stored date of the budget state is not today, or no state
\* exists, allow(cost) first resets spend and draft count to zero and then
\* evaluates: the first call of a new day with a cost within the cap returns
\* true and leaves spend = cost and draft count = 1 under today's date,
\* whatever the spend of the day before.
C26_NewDayResets ==
    [][(AllowStep /\ ~SameDay(state) /\ cost' <= DAILY_TOKEN_BUDGET_USD) =>
          /\ ret' = TRUE
          /\ state'.dated /\ state'.date = today
          /\ state'.spend = cost'
          /\ state'.drafts = 1]_vars

\* the first accepted call of the second day
C26_Witness ==
    /\ today = 1
    /\ SameDay(state)
    /\ ret
    /\ cost > 0
    /\ state.spend = cost
    /\ state.drafts = 1

----------------------------------------------------------------------------
\* C27: in an opportunity scan, once allow has returned false for a selected
\* index, the scan posts the budget message in the thread and returns: it
\* makes no further allow call and no further generation call for any of
\* the remaining selected indexes.
C27_BudgetStopEndsScan ==
    [][/\ (flow = "scan" /\ AllowStep /\ ret' = FALSE) => pc' = "budget_paused"
       /\ pc = "budget_paused" =>
              (pc' = pc /\ lastGen' = lastGen /\ callBit' = callBit /\ si' = si)]_vars

\* the scan has stopped on a refusal after one draft, with a selected index
\* of the shortlist still to come
C27_Witness ==
    /\ flow = "scan"
    /\ pc = "budget_paused"
    /\ ~ret
    /\ lastGen.any
    /\ si < Len(selected)
    /\ selected[si + 1] \in 1..nopps

----------------------------------------------------------------------------
(* Claims about the draft stage *)

\* C28: a "regenerate" signal re-invokes the generation backend and then
\* re-offers the four-way choice on the new draft: a reply published by the
\* session after a regeneration follows a "post" or "edit" signal of the
\* operator, not the "regenerate" signal itself.
C28_RegenReoffersChoice ==
    (lastGen.any /\ lastGen.site = "regen" /\ lastPub.any /\ lastPub.kind = "reply") =>
        lastWait.resp \in {"post", "edit"}

\* the first reply of the thread, in thread order, that starts with "edit:"
RECURSIVE first_matching(_, _)
first_matching(th, i) ==
    IF i > Len(th) THEN "none"
    ELSE IF th[i] # "chat" THEN th[i]
    ELSE first_matching(th, i + 1)

\* C29: in a draft stage resolved with "edit", the text that goes on to be
\* published is the replacement text of the first thread reply, in thread
\* order, that matches the edit prefix: with several matching replies the
\* earliest wins.
C29_FirstEditWins ==
    [][(pc = "draft_edit" /\ pc' = "draft_post" /\ first_matching(thread, 1) # "none") =>
          draft' = first_matching(thread, 1)]_vars


\* C30: for a published item, its 24h snapshot triggers the feature-success
\* update at most once: over any sequence of background-metrics runs, with
\* one 24h snapshot of the item on file, each feature's success counter has
\* been incremented at most once.
C30_SuccessCountedOnce ==
    Len(snaps24) <= 1 => \A k \in FeatureKeys : learning[k].successes <= 1

----------------------------------------------------------------------------
(* Claims about the theme weights *)

UpdateStep == window'.bit # window.bit

\* credit of a theme, in tenths, for the posts of the window: each post with
\* numbers 1.0 to metrics, each other post that asks a question 0.7 to
\* positioning, each remaining post 0.5 to build_in_public
Credit(k, posts) ==
    CASE k = "metrics" -> 10 * posts[1]
      [] k = "positioning" -> 7 * posts[2]
      [] k = "build_in_public" -> 5 * posts[3]
      [] OTHER -> 0

Raised == {k \in ThemeNames : state'.themes[k] > state.themes[k]}

\* C31 as stated: every theme-weight update increments exactly one theme.
C31_Original ==
    [][UpdateStep => Cardinality(Raised) = 1]_vars

\* C31 amended: one theme-weight update selects as best a theme of highest
\* summed credit, sets best to min(5, weight + 1) and every other theme to
\* max(1, trunc(0.9 * weight)); no theme other than best increases, and
\* best increases by one unless it is already at the cap 5, in which case no
\* theme is incremented.
C31_UpdateRule ==
    [][UpdateStep =>
         /\ best' \in ThemeNames
         /\ \A k \in ThemeNames : Credit(k, window'.posts) <= Credit(best', window'.posts)
         /\ state'.themes[best'] = Min(5, state.themes[best'] + 1)
         /\ \A k \in ThemeNames \ {best'} :
               state'.themes[k] = Max(1, (9 * state.themes[k]) \div 10)
         /\ Raised \subseteq {best'}
         /\ (Raised = {best'}) <=> (state.themes[best'] < 5)]_vars

\* an update for a window of two posts with numbers has rewarded metrics,
\* which stands at the cap, every other theme being down at 1
C31_Witness ==
    /\ best = "metrics"
    /\ window.posts = <<2, 0, 0>>
    /\ state.themes["metrics"] = 5
    /\ \A k \in ThemeNames \ {"metrics"} : state.themes[k] = 1


PickStep == pick'.bit # pick.bit

\* C32: every theme-selection call returns a member of the known theme set,
\* in the non-exploring branch a theme whose weight is maximal; it persists
\* the theme-weight map and changes no theme weight and no budget field
\* (date, spend, draft count) of the persisted state.
C32_PickKeepsState ==
    [][PickStep =>
         /\ pick'.theme \in ThemeNames
         /\ ~pick'.explored =>
               \A k \in ThemeNames : state.themes[k] <= state.themes[pick'.theme]
         /\ state'.themed
         /\ state'.themes = state.themes
         /\ state'.dated = state.dated
         /\ state'.date = state.date
         /\ state'.spend = state.spend
         /\ state'.drafts = state.drafts]_vars

\* a selection without exploring, made from unequal weights and a ledger
\* that has been charged, returned a theme other than the first of the dict
C32_Witness ==
    /\ pick.theme = "positioning"
    /\ ~pick.explored
    /\ state.themes["positioning"] > state.themes["metrics"]
    /\ state.spend > 0


\* C39: an allow call changes only the budget fields of the persisted
\* record: the theme weights stored in the same record are the same after
\* the call as before it, the call that resets the budget at a date
\* rollover included.
C39_AllowKeepsThemes ==
    [][AllowStep =>
         /\ state'.themed = state.themed
         /\ state'.themes = state.themes]_vars


\* C33: a sampler run appends a snapshot for a label only if the post's age
\* is within 5 minutes of that label's offset and no snapshot of the post
\* for that label exists yet, and it appends at most one.
C33_AppendsOnlyMissing ==
    [][\A l \in Labels :
          snaps'[l] # snaps[l] =>
              /\ in_window(clock, l)
              /\ snaps[l] = 0
              /\ snaps'[l] = 1]_vars


----------------------------------------------------------------------------
(* The sampler under the scheduler alone: a post and the half hours *)

\* minutes of age followed: the last capture window closes before 1445
Horizon == 1446

\* minutes between the publication and the next half hour of the scheduler
PublishOffsets == 0..29

CaptureInit ==
    /\ clock = 0
    /\ offset \in PublishOffsets
    /\ lastSched = -1
    /\ snaps = [l \in Labels |-> 0]
    /\ item = "tweet"
    /\ snaps24 = <<>>
    /\ learning = after_picks(1)
    /\ lops = 0
    /\ snapIn = NoSnap
    /\ LedgerIdle /\ SchedIdle /\ FlowIdle /\ OtherIdle /\ MoreIdle
    /\ ScoreIdle /\ ShortIdle /\ best = "none"

\* should_run_task("metrics", now): minute % 30 == 0, once for that minute
MetricsDue == (clock + offset) % 30 = 0 /\ lastSched # clock

\* the scheduler starts run_background_metrics on the half hour; the
\* engagement fetch returns data
CaptureRun ==
    /\ MetricsDue
    /\ lastSched' = clock
    /\ \E m \in FetchedMetrics :
          LET file == IF in_window(clock, "24h")
                      THEN Append(snaps24, [ts |-> clock, likes |-> m.likes,
                                            replies |-> m.replies])
                      ELSE snaps24
          IN  /\ snaps' = background_metrics_fetch(snaps, clock, TRUE)
              /\ snaps24' = file
              /\ learning' = learn_from_snapshots(learning, file, 1, clock, item)
    /\ UNCHANGED <<clock, offset, item, lops, snapIn>>
    /\ UNCHANGED <<ledgerVars, schedVars, flowVars>>
    /\ UNCHANGED <<scoreVars, shortVars, best, otherVars, moreVars>>

\* a minute passes; a run that is due is started first
CaptureMinute ==
    /\ clock < Horizon
    /\ ~MetricsDue
    /\ clock' = clock + 1
    /\ UNCHANGED <<offset, lastSched, snaps, item, snaps24>>
    /\ UNCHANGED <<ledgerVars, schedVars, flowVars>>
    /\ UNCHANGED <<scoreVars, shortVars, best, learnVars, otherVars, moreVars>>

CaptureNext == CaptureRun \/ CaptureMinute

\* the service loop never stops: minutes pass and due runs are started
SpecCapture == CaptureInit /\ [][CaptureNext]_vars /\ WF_vars(CaptureNext)

\* C34: for every published post, whatever minute it was published in, with
\* the sampler started every 30 minutes and the fetches succeeding, a
\* snapshot is eventually captured for each of the four delays.
C34_AllDelaysCaptured == <>(\A l \in Labels : snaps[l] >= 1)


----------------------------------------------------------------------------
(* Settings read by the morning session: env_required *)

\* env_required(name) raises when the setting is absent
env_missing(c, name) == name \notin c.present

\* _detect_urgent_opportunities and _fetch_opportunities build the client
\* and query the platform when creators are listed
twitter_raises(c) == c.creators /\ env_missing(c, "TWITTER_KEYS")
twitter_queried(c) == c.creators /\ ~env_missing(c, "TWITTER_KEYS")

ConfigInit ==
    /\ cfg \in [present : SUBSET Settings, creators : BOOLEAN, profile : BOOLEAN]
    /\ cpc = "start"
    /\ contacted = {}
    /\ LedgerStart
    /\ SchedIdle /\ FlowIdle
    /\ ScoreIdle /\ ShortIdle /\ best = "none" /\ LearnIdle /\ SamplerIdle
    /\ OtherIdle /\ ThemeAuxIdle /\ GenIdle /\ ThreadIdle

ConfigFrame ==
    /\ UNCHANGED <<today, ledgerHist, schedVars, flowVars>>
    /\ UNCHANGED <<scoreVars, shortVars, best, learnVars, samplerVars, otherVars>>
    /\ UNCHANGED <<cfg, genVars, threadVars>>

\* run_morning_session, line 666: channel = env_required("SLACK_CHANNEL_ID")
CheckChannel ==
    /\ cpc = "start"
    /\ cpc' = IF env_missing(cfg, "SLACK_CHANNEL_ID") THEN "config_error" ELSE "card"
    /\ UNCHANGED <<state, contacted, window, pick>>
    /\ ConfigFrame

\* generate_coaching_card inside try/except: the urgent scan queries the
\* platform, or raises and leaves the generic header; a card that gets as
\* far picks a theme
CoachingCard ==
    /\ cpc = "card"
    /\ cpc' = "header"
    /\ contacted' = IF twitter_queried(cfg) THEN contacted \cup {"twitter"} ELSE contacted
    /\ IF twitter_raises(cfg)
       THEN UNCHANGED <<state, window, pick>>
       ELSE /\ state' = pick_theme_save(state)
            /\ window' = [NoWindow EXCEPT !.bit = window.bit]
            /\ \E d \in PickDraws :
                  pick' = [bit |-> ~pick.bit,
                           theme |-> pick_theme(state.themes, d.explore, d.r),
                           explored |-> d.explore]
    /\ ConfigFrame

\* slack_post(channel, coaching): slack_client reads SLACK_BOT_TOKEN
PostHeader ==
    /\ cpc = "header"
    /\ IF env_missing(cfg, "SLACK_BOT_TOKEN")
       THEN cpc' = "config_error" /\ UNCHANGED contacted
       ELSE cpc' = "actions" /\ contacted' = contacted \cup {"slack"}
    /\ UNCHANGED <<state, window, pick>>
    /\ ConfigFrame

\* _determine_morning_actions: the urgent scan outside any try
DetermineActions ==
    /\ cpc = "actions"
    /\ IF twitter_raises(cfg)
       THEN cpc' = "config_error" /\ UNCHANGED contacted
       ELSE /\ cpc' = "ask"
            /\ contacted' = IF twitter_queried(cfg) THEN contacted \cup {"twitter"}
                            ELSE contacted
    /\ UNCHANGED <<state, window, pick>>
    /\ ConfigFrame

\* the card of the tweet action and the operator's answer to it
AskTweet ==
    /\ cpc = "ask"
    /\ \E yes \in BOOLEAN : cpc' = IF yes THEN "generate" ELSE "past_tweet"
    /\ UNCHANGED <<state, contacted, window, pick>>
    /\ ConfigFrame

\* generate_suggestions: an error line without the profile, otherwise
\* _anthropic_complete, which reads ANTHROPIC_API_KEY first
GenerateOptions ==
    /\ cpc = "generate"
    /\ IF ~cfg.profile
       THEN cpc' = "past_tweet" /\ UNCHANGED contacted
       ELSE IF env_missing(cfg, "ANTHROPIC_API_KEY")
            THEN cpc' = "config_error" /\ UNCHANGED contacted
            ELSE cpc' = "past_tweet" /\ contacted' = contacted \cup {"anthropic"}
    /\ UNCHANGED <<state, window, pick>>
    /\ ConfigFrame

ConfigNext ==
    \/ CheckChannel
    \/ CoachingCard
    \/ PostHeader
    \/ DetermineActions
    \/ AskTweet
    \/ GenerateOptions

SpecConfig == ConfigInit /\ [][ConfigNext]_vars

\* C35: when a required setting is absent, the workflow fails before it
\* makes any network call: a run that ends in a configuration error has
\* posted no message and queried no collaborator.
C35_FailsBeforeAnyCall == cpc = "config_error" => contacted = {}


----------------------------------------------------------------------------
(* One generation call: _choose_model and _anthropic_complete *)

\* _choose_model(task): the override alone, or the list of the task
choose_model(task, override) ==
    IF override THEN <<"ANTHROPIC_MODEL">>
    ELSE IF task \in {"suggest", "summary", "weekly"}
         THEN <<"claude-3-5-sonnet-20241022", "claude-3-5-sonnet-latest",
                "claude-3-opus-latest", "claude-3-5-haiku-20241022",
                "claude-3-haiku-20240307">>
         ELSE <<"claude-3-5-haiku-20241022", "claude-3-haiku-20240307",
                "claude-3-5-sonnet-20241022", "claude-3-5-sonnet-latest">>

\* the loop over candidate_models from position i: a variant that raises
\* leaves its error in last_err, the first that answers ends the loop; the
\* error of variant i is named i, and so is its completion
RECURSIVE try_models(_, _, _, _, _)
try_models(models, fails, i, called, last_err) ==
    IF i > Len(models)
    THEN [done |-> TRUE, called |-> called, result |-> "error", by |-> 0,
          err |-> last_err]
    ELSE IF fails[i]
         THEN try_models(models, fails, i + 1, Append(called, models[i]), i)
         ELSE [done |-> TRUE, called |-> Append(called, models[i]),
               result |-> "text", by |-> i, err |-> 0]

\* A mutant of anthropic_complete: when no variant answers, the error of the
\* first one is raised.
anthropic_complete_first_error(models, fails) ==
    LET r == try_models(models, fails, 1, <<>>, 0)
    IN  IF r.result = "error" THEN [r EXCEPT !.err = 1] ELSE r

\* _anthropic_complete, the API key being set
anthropic_complete(models, fails) == try_models(models, fails, 1, <<>>, 0)

\* tasks that call the backend: two of the core list, one of the light list
GenTasks == {"suggest", "summary", "reply"}

GenInputs ==
    UNION {{[task |-> t, override |-> o, fails |-> f] :
               f \in [1..Len(choose_model(t, o)) -> BOOLEAN]} :
           t \in GenTasks, o \in BOOLEAN}

GenInit ==
    /\ genIn \in GenInputs
    /\ genOut = NoGenOut
    /\ LedgerIdle /\ SchedIdle /\ FlowIdle
    /\ ScoreIdle /\ ShortIdle /\ best = "none" /\ LearnIdle /\ SamplerIdle
    /\ OtherIdle /\ ThemeAuxIdle /\ ConfigIdle /\ ThreadIdle

GenCall ==
    /\ ~genOut.done
    /\ genOut' = anthropic_complete(choose_model(genIn.task, genIn.override), genIn.fails)
    /\ UNCHANGED <<genIn, ledgerVars, schedVars, flowVars>>
    /\ UNCHANGED <<scoreVars, shortVars, best, learnVars, samplerVars, otherVars>>
    /\ UNCHANGED <<window, pick, configVars, threadVars>>

SpecGen == GenInit /\ [][GenCall]_vars

\* C36: a generation call tries the variants in their configured order: it
\* returns the completion of the first variant that succeeds and calls no
\* variant after it; if every variant fails, the error of the last variant
\* tried reaches the caller and no text is returned.
C36_FirstSuccessWins ==
    genOut.done =>
        LET models == choose_model(genIn.task, genIn.override)
            ok == {i \in 1..Len(models) : ~genIn.fails[i]}
        IN  IF ok = {}
            THEN /\ genOut.called = models
                 /\ genOut.result = "error"
                 /\ genOut.err = Len(models)
                 /\ genOut.by = 0
            ELSE LET f == CHOOSE i \in ok : \A j \in ok : i <= j
                 IN  /\ genOut.called = SubSeq(models, 1, f)
                     /\ genOut.result = "text"
                     /\ genOut.by = f
                     /\ genOut.err = 0

\* two variants raised, the third answered, and the two after it were not
\* called though the last would have answered too
C36_Witness ==
    /\ genOut.done
    /\ genIn.task = "suggest" /\ ~genIn.override
    /\ genIn.fails = <<TRUE, TRUE, FALSE, TRUE, FALSE>>
    /\ genOut.by = 3
    /\ Len(genOut.called) = 3

\* every variant raised: the caller gets the error of the last one
C36_WitnessAllFail ==
    /\ genOut.done
    /\ genIn.task = "reply" /\ ~genIn.override
    /\ genIn.fails = <<TRUE, TRUE, TRUE, TRUE>>
    /\ genOut.result = "error"
    /\ genOut.err = 4


----------------------------------------------------------------------------
(* Sessions that wait and the scheduler *)

\* C37: while a workflow instance is blocked awaiting a signal (its thread
\* is running), the scheduler keeps ticking and dispatches every task that
\* is due at the tick, and every other running instance can go on and end:
\* a waiting session never delays a dispatch.
C37_WaitBlocksOnlyItsUnit ==
    /\ [](ticks < MaxTicks => ENABLED Tick)
    /\ [](\A j \in DOMAIN units : units[j].status = "running" => ENABLED UnitEnds(j))
    /\ [][ticks' # ticks =>
            /\ units' = units \o Started(last_run, now, 1)
            /\ \A k \in TaskNames :
                  fires(last_run, k, now) =>
                      \E i \in DOMAIN units' :
                          /\ i > Len(units)
                          /\ units'[i].task = k
                          /\ units'[i].bucket = current_minute(now)]_vars

\* the morning session of 07:30 still runs, and the sampler dispatched half
\* an hour later has completed
C37_Witness ==
    \E i, j \in DOMAIN units :
        /\ units[i].task = "suggest"
        /\ units[i].status = "running"
        /\ units[j].task = "metrics"
        /\ units[j].bucket > units[i].bucket
        /\ units[j].status = "completed"


----------------------------------------------------------------------------
(* The selection of an opportunity scan *)

\* C40: a scan charges the ledger and calls the generation backend only for
\* shortlist indexes named in a reply written by the operator under the
\* header: its own shortlist lines are never taken as a selection, and
\* without a reply of the operator the scan generates nothing.
C40_OnlyOperatorSelection ==
    (flow = "scan" /\ pc = "scan_gen") =>
        \E i \in DOMAIN opSel : opSel[i] = selected[si]


----------------------------------------------------------------------------
(* One morning session to its end *)

MorningInit == FlowInit /\ flow = "morning"

\* the steps of the thread that runs run_morning_session
SessionStep ==
    \/ MorningBeginUpTo(ActionCap)
    \/ NextAction
    \/ PollReturns
    \/ WaitTimesOut
    \/ GenOptions
    \/ PublishTweet
    \/ GenDraft
    \/ DraftEdit
    \/ DraftRegen
    \/ DraftPost

\* the operator writes in the thread of a draft, MaxNotes times at most
OperatorNote ==
    /\ Len(thread) < MaxNotes
    /\ \E text \in {"edit1", "edit2", "chat"} : OperatorReply(text)

MorningNext ==
    \/ SessionStep
    \/ \E k \in CardKinds : \E name \in OperatorNames(k) : OperatorReact(k, name)
    \/ OperatorNote

\* the thread of the session keeps running: a call returns or raises, and a
\* wait returns at the latest when its timeout is over
SpecMorning == MorningInit /\ [][MorningNext]_vars /\ WF_vars(SessionStep)

\* C38: every morning session terminates: it posts its completion message,
\* or a collaborator call raised; it has at most 4 actions, the first of
\* which is the tweet action, each action posts at most three cards, and
\* each wait ends (no wait state is an end of the session).
C38_SessionTerminates ==
    /\ <>(pc \in {"done", "aborted"})
    /\ [](/\ Len(actions) <= ActionCap
          /\ actions # <<>> => actions[1] = "tweet"
          /\ cards <= 3)

\* a session of four actions has posted its completion message after it
\* published the tweet
C38_Witness ==
    /\ pc = "done"
    /\ Len(actions) = ActionCap
    /\ tweetPubs = 1

\* three cards for one action: the reply card, the draft and the
\* regenerated draft
C38_WitnessCards == cards = 3 /\ draft = "draft2"

====
